---- MODULE Spec2Model ----
(***************************************************************************)
(* Model of apps/intro_runtime/src/Application.cpp: the scene and shader   *)
(* binding table (SBT) assembly of Application::initPipeline and           *)
(* Application::createLights, the live SBT update of                       *)
(* Application::updateShaderBindingTable, and the accumulation loop of     *)
(* Application::render, Application::restartAccumulation,                  *)
(* Application::reshape and Application::guiWindow.                        *)
(*                                                                         *)
(* C arrays are modelled as sequences; element i of the C array is element *)
(* i + 1 of the sequence (operator At).  A packed SBT header is modelled   *)
(* by the program identifier of the program group it was packed from.     *)
(* Time is counted in half seconds (TicksPerSecond ticks per second).      *)
(***************************************************************************)
EXTENDS Integers, Sequences, FiniteSets, TLC

\* ------------------------------------------------------------------------
\* Bounds of the model
\* ------------------------------------------------------------------------
MaxMissID == 3
MaxLightID == 1
MaxIterations == 3
MaxTime == 5
MaxGuiEdits == 2

\* ------------------------------------------------------------------------
\* Program constants
\* ------------------------------------------------------------------------
NUM_RAYTYPES == 2
RAYTYPE_RADIANCE == 0
RAYTYPE_SHADOW == 1

PROGRAM_ID_RAYGENERATION == 0
PROGRAM_ID_EXCEPTION == 1
PROGRAM_ID_MISS_RADIANCE == 2
PROGRAM_ID_MISS_SHADOW == 3
PROGRAM_ID_HIT_RADIANCE == 4
PROGRAM_ID_HIT_SHADOW == 5
PROGRAM_ID_HIT_RADIANCE_CUTOUT == 6
PROGRAM_ID_HIT_SHADOW_CUTOUT == 7
PROGRAM_ID_LENS_PINHOLE == 8
PROGRAM_ID_BSDF_SPECULAR_EVAL == 18
NUM_PROGRAM_IDENTIFIERS == 19
NUM_MODULE_IDENTIFIERS == 10

NumSceneObjects == 5
NumMaterials == 6
TicksPerSecond == 2
HalfSecond == 1

LIGHT_ENVIRONMENT == "LIGHT_ENVIRONMENT"
LIGHT_PARALLELOGRAM == "LIGHT_PARALLELOGRAM"

TEXTURE_ALBEDO == 1
TEXTURE_CUTOUT == 2

\* The items of the "BSDF Type" combo box, in order.
INDEX_BSDF_DIFFUSE_REFLECTION == 0
INDEX_BSDF_SPECULAR_REFLECTION == 1
INDEX_BSDF_SPECULAR_REFLECTION_TRANSMISSION == 2

\* ------------------------------------------------------------------------
\* State
\* ------------------------------------------------------------------------
VARIABLES
  pc,                                 \* a step of initOptiX, "instances", "lights", "sbt",
                                      \* "run", "invalid" or "destroyed"
  m_isValid,
  initSteps,                          \* history: the steps of initOptiX executed, with their results
  released,                           \* history: the GPU resources the destructor released
  m_missID, m_lightID, m_interop,     \* options read by the constructor
  m_instances,                        \* std::vector<OptixInstance>
  m_geometries,                       \* std::vector<GeometryData>
  m_lightDefinitions,                 \* std::vector<LightDefinition>
  m_guiMaterialParameters,            \* std::vector<MaterialParameterGUI>
  m_sbtRecordGeometryInstanceData,    \* host hit-group records
  m_d_sbtRecordGeometryInstanceData,  \* device hit-group records
  m_sbt,                              \* OptixShaderBindingTable and the device
                                      \* raygen/exception/miss/callable records
  d_lightDefinitions,                 \* device array m_systemParameter.lightDefinitions
  d_materialParameters,               \* device array m_systemParameter.materialParameters
  m_systemParameter,                  \* host SystemParameter
  m_d_systemParameter,                \* device SystemParameter
  m_iterationIndex, m_frames,
  m_present, m_presentNext, m_presentAtSecond,
  m_timer,                            \* elapsed ticks since m_timer.restart()
  m_pinholeCamera,                    \* [frame, changed]
  m_sceneEpsilonFactor,
  m_width, m_height,
  outputBuffer,                       \* the accumulation buffer on the device
  presentCause,                       \* history: the assignment that last wrote m_presentNext
  lastRender,                         \* history: what the most recent render() call did
  lastUpdate,                         \* history: argument of the most recent updateShaderBindingTable
  guiEdits,                           \* history: number of user inputs so far
  m_cudaStream,                       \* [pending, log]: work submitted to the stream and not
                                      \* yet waited for; history: the device accesses of the
                                      \* most recent operation
  launches,                           \* history: iteration indices launched since the last restart
  restartCalls,                       \* history: restartAccumulation() calls in a row, up to 2
  lastLog,                            \* history: ceil() of the time of the most recent
                                      \* throughput log since the last restart
  gpu,                                \* [alive, log]: the GPU objects alive; history:
                                      \* the calls of the most recent operation on them
  m_cudaGraphicsResource              \* [registered, mapped, uploaded, log]: the interop
                                      \* resource of the pixel buffer; history: the
                                      \* interop steps of the most recent operation

sceneVars == <<m_instances, m_geometries, m_lightDefinitions>>
sbtVars == <<m_sbtRecordGeometryInstanceData, m_d_sbtRecordGeometryInstanceData, m_sbt>>
optionVars == <<m_missID, m_lightID, m_interop>>
configVars == <<m_missID, m_lightID, m_interop, m_isValid, initSteps, released>>
restartVars == <<m_iterationIndex, m_presentNext, m_presentAtSecond, m_d_systemParameter, m_timer, presentCause, launches, lastLog>>

vars == <<pc, m_isValid, initSteps, released, m_missID, m_lightID, m_interop, m_instances, m_geometries,
          m_lightDefinitions, m_guiMaterialParameters,
          m_sbtRecordGeometryInstanceData, m_d_sbtRecordGeometryInstanceData,
          m_sbt, d_lightDefinitions, d_materialParameters, m_systemParameter,
          m_d_systemParameter, m_iterationIndex, m_frames, m_present,
          m_presentNext, m_presentAtSecond, m_timer, m_pinholeCamera,
          m_sceneEpsilonFactor, m_width, m_height, outputBuffer, presentCause,
          lastRender, lastUpdate, guiEdits, m_cudaStream, launches, restartCalls,
          lastLog, m_cudaGraphicsResource, gpu>>

\* ------------------------------------------------------------------------
\* Helpers
\* ------------------------------------------------------------------------
At(s, i) == s[i + 1]

Indices(s) == 0 .. (Len(s) - 1)

\* ceil() of a time given in ticks, in ticks.
Ceil(t) == ((t + TicksPerSecond - 1) \div TicksPerSecond) * TicksPerSecond

\* ------------------------------------------------------------------------
\* The CUDA stream m_cudaStream
\* ------------------------------------------------------------------------
\* No work submitted, nothing accessed.
StreamIdle == [pending |-> FALSE, log |-> << >>]

\* An operation of the application begins: the history of the previous one
\* is dropped.
Begin(st) == [st EXCEPT !.log = << >>]

\* optixLaunch or optixAccelBuild on m_cudaStream: asynchronous work is
\* submitted.
Submit(st) == [st EXCEPT !.pending = TRUE]

\* cudaStreamSynchronize(m_cudaStream): all submitted work has finished.
cudaStreamSynchronize(st) == [st EXCEPT !.pending = FALSE]

\* A host access (op: "write", "read" or "free") to the device memory
\* "target"; synced tells whether cudaStreamSynchronize was called after the
\* most recent submission.
Access(st, op, target) ==
  [st EXCEPT !.log = Append(@, [op |-> op, target |-> target, synced |-> ~st.pending])]

\* restartAccumulation(): the synchronization and the upload of the
\* parameter struct.
RestartStream(st) == Access(cudaStreamSynchronize(st), "write", "systemParameter")

\* updateMaterialParameters(): the synchronization and the upload of the
\* material array.
MaterialStream(st) == Access(cudaStreamSynchronize(st), "write", "materialParameters")

\* guiWindow(), "Lights": the synchronization and the upload of the light
\* array.
LightStream(st) == Access(cudaStreamSynchronize(st), "write", "lightDefinitions")

\* createGeometry() and the top-level build of initPipeline: the build, the
\* synchronization and the free of the scratch buffer.
BuildStream(st) == Access(cudaStreamSynchronize(Submit(st)), "free", "scratch")

\* ------------------------------------------------------------------------
\* The interop resource m_cudaGraphicsResource of the pixel buffer object
\* ------------------------------------------------------------------------
\* Not registered, nothing done.
GraphicsIdle == [registered |-> FALSE, mapped |-> FALSE, uploaded |-> FALSE, log |-> << >>]

\* An operation of the application begins: the history of the previous one
\* is dropped.
BeginGraphics(res) == [res EXCEPT !.log = << >>]

\* A step on the resource or on the pixel buffer: the history records the
\* step with the state of the resource it found.
Step(res, op) ==
  [res EXCEPT !.log = Append(@, [op |-> op, registered |-> res.registered,
                                 mapped |-> res.mapped, uploaded |-> res.uploaded])]

cudaGraphicsGLRegisterBuffer(res) == [Step(res, "register") EXCEPT !.registered = TRUE]

cudaGraphicsUnregisterResource(res) == [Step(res, "unregister") EXCEPT !.registered = FALSE]

\* The pointer of a new mapping is not on the device yet.
cudaGraphicsMapResources(res) ==
  [Step(res, "map") EXCEPT !.mapped = TRUE, !.uploaded = FALSE]

cudaGraphicsUnmapResources(res) == [Step(res, "unmap") EXCEPT !.mapped = FALSE]

\* cudaMemcpy of the mapped pointer to m_d_systemParameter->outputBuffer.
UploadPointer(res) == [Step(res, "upload") EXCEPT !.uploaded = TRUE]

\* initPipeline, "if (m_interop)": register, map, get the pointer, unmap.
InitGraphics(res, interop) ==
  IF interop
    THEN cudaGraphicsUnmapResources(
           cudaGraphicsMapResources(cudaGraphicsGLRegisterBuffer(BeginGraphics(res))))
    ELSE BeginGraphics(res)

\* reshape(), "if (m_interop)": unregister, resize the pixel buffer,
\* register, map, get the pointer, unmap.
ReshapeGraphics(res, interop) ==
  IF interop
    THEN cudaGraphicsUnmapResources(
           cudaGraphicsMapResources(
             cudaGraphicsGLRegisterBuffer(
               cudaGraphicsUnregisterResource(BeginGraphics(res)))))
    ELSE BeginGraphics(res)

\* RenderGraphics with the launch submitted after the unmap.
RenderGraphicsLaunchAfterUnmap(res, interop, launch, present) ==
  LET r1 == IF interop /\ launch
              THEN Step(cudaGraphicsUnmapResources(
                          UploadPointer(cudaGraphicsMapResources(BeginGraphics(res)))),
                        "launch")
              ELSE BeginGraphics(res)
  IN IF interop /\ present THEN Step(r1, "display") ELSE r1

\* render(), the interop branches: map, get and upload the pointer, launch,
\* unmap; then the display path reads the pixel buffer.
RenderGraphics(res, interop, launch, present) ==
  LET r1 == IF interop /\ launch
              THEN cudaGraphicsUnmapResources(
                     Step(UploadPointer(cudaGraphicsMapResources(BeginGraphics(res))),
                          "launch"))
              ELSE BeginGraphics(res)
  IN IF interop /\ present THEN Step(r1, "display") ELSE r1

\* ~Application(), "if (m_interop)": unregister.
DestructorGraphics(res, interop) ==
  IF interop THEN cudaGraphicsUnregisterResource(BeginGraphics(res))
             ELSE BeginGraphics(res)

\* ------------------------------------------------------------------------
\* Scene: geometries, instances, lights, materials
\* ------------------------------------------------------------------------

\* BelowSize with the size itself accepted.
BelowSizeInclusive(instance, size) == IF instance < 0 THEN FALSE ELSE instance <= size

\* "instance < m_instances.size()" compares an int with a size_t: the int is
\* converted to a 64 bit unsigned value first, so a negative int becomes a
\* value of at least 2^63, which no vector size exceeds.
BelowSize(instance, size) == IF instance < 0 THEN FALSE ELSE instance < size

\* Device pointers of the buffers of the k-th geometry.
AttributesPtr(k) == 10 * (k + 1) + 1
IndicesPtr(k) == 10 * (k + 1) + 2
GasPtr(k) == 10 * (k + 1) + 3

\* createGeometry: allocates the attribute, index and GAS buffers and tracks
\* them in m_geometries; returns the traversable handle (the GAS).
createGeometry(geometries) ==
  LET k == Len(geometries)
  IN Append(geometries, [indices |-> IndicesPtr(k),
                         attributes |-> AttributesPtr(k),
                         gas |-> GasPtr(k)])

\* NewInstance with the ray type stride left out of sbtOffset.
NewInstanceNoStride(instances, handle) ==
  LET id == Len(instances)
  IN [instanceId |-> id,
      sbtOffset |-> id,
      traversableHandle |-> handle]

\* The OptixInstance pushed for a traversable: id is the current list size.
NewInstance(instances, handle) ==
  LET id == Len(instances)
  IN [instanceId |-> id,
      sbtOffset |-> id * NUM_RAYTYPES,
      traversableHandle |-> handle]

\* One create*() call of initPipeline or createLights followed by the push of
\* its instance; s holds the geometry and the instance list.
AddObject(s) ==
  LET geometries == createGeometry(s.geometries)
  IN [geometries |-> geometries,
      instances |-> Append(s.instances,
                           NewInstance(s.instances, At(geometries, Len(s.geometries)).gas))]

\* The first n objects of initPipeline (plane, box, nested sphere, sphere, torus).
RECURSIVE SceneObjects(_)
SceneObjects(n) ==
  IF n = 0 THEN [geometries |-> << >>, instances |-> << >>]
  ELSE AddObject(SceneObjects(n - 1))

\* ------------------------------------------------------------------------
\* The device: the GPU objects and the calls that create, use and destroy them
\* ------------------------------------------------------------------------
Obj(kind, name, id) == [kind |-> kind, name |-> name, id |-> id]

\* A call of the API function op on obj; effect is create, use or destroy.
Call(op, effect, obj) == [op |-> op, effect |-> effect, obj |-> obj]

Stream == Obj("stream", "m_cudaStream", 0)

Context == Obj("context", "m_context", 0)

Pipeline == Obj("pipeline", "m_pipeline", 0)

Texture(name) == Obj("texture", name, 0)

\* A device buffer held in a member or a local variable.
Buffer(name) == Obj("buffer", name, 0)

\* A device buffer of a geometry, identified by its device pointer.
GeometryBuffer(name, ptr) == Obj("buffer", name, ptr)

ProgramGroup(i) == Obj("programGroup", "programGroups", i)

Module(i) == Obj("module", "modules", i)

cudaMalloc(obj) == Call("cudaMalloc", "create", obj)

cudaFree(obj) == Call("cudaFree", "destroy", obj)

optixSbtRecordPackHeader(id) == Call("optixSbtRecordPackHeader", "use", ProgramGroup(id))

\* Nothing created yet.
NoDevice == [alive |-> {}, log |-> << >>]

\* An operation of the application begins: the history of the previous one
\* is dropped.
BeginDevice(d) == [d EXCEPT !.log = << >>]

\* Whether obj is alive before call i of calls, started in d: the last call
\* before i that created or destroyed it decides, or d if there is none.
AliveBefore(d, calls, i, obj) ==
  LET changes == {j \in 1 .. (i - 1) : calls[j].obj = obj /\ calls[j].effect # "use"}
  IN IF changes = {} THEN obj \in d.alive
     ELSE calls[CHOOSE j \in changes : \A k \in changes : k <= j].effect = "create"

\* The calls of an operation in program order: the history records for each
\* call whether its object was alive.
Run(d, calls) ==
  LET n == Len(calls)
      objs == {calls[j].obj : j \in 1 .. n}
  IN [alive |-> {o \in d.alive \cup objs : AliveBefore(d, calls, n + 1, o)},
      log |-> d.log \o [i \in 1 .. n |->
                          [op |-> calls[i].op, effect |-> calls[i].effect,
                           obj |-> calls[i].obj,
                           live |-> AliveBefore(d, calls, i, calls[i].obj)]]]

\* initMaterials: the cutout and the albedo texture.
initMaterialsCalls ==
  <<Call("new Texture", "create", Texture("m_textureCutout")),
    Call("new Texture", "create", Texture("m_textureAlbedo"))>>

\* One step of initOptiX with its result; initRenderer and with it
\* initMaterials follow the last step.
InitOptiXCalls(step, ok) ==
  IF ~ok THEN << >>
  ELSE CASE step = "cudaStreamCreate" -> <<Call("cudaStreamCreate", "create", Stream)>>
         [] step = "optixDeviceContextCreate" ->
              <<Call("optixDeviceContextCreate", "create", Context)>> \o initMaterialsCalls
         [] OTHER -> << >>

\* createGeometry for the geometry at index k: the attribute, index and GAS
\* buffers, and the temporary buffer of the build.
createGeometryCalls(k) ==
  <<cudaMalloc(GeometryBuffer("attributes", AttributesPtr(k))),
    cudaMalloc(GeometryBuffer("indices", IndicesPtr(k))),
    cudaMalloc(GeometryBuffer("gas", GasPtr(k))),
    cudaMalloc(Buffer("d_tmp")),
    Call("optixAccelBuild", "use", GeometryBuffer("gas", GasPtr(k))),
    Call("cudaStreamSynchronize", "use", Stream),
    cudaFree(Buffer("d_tmp"))>>

\* createLights with k geometries created before it.
createLightsCalls(lightID, k) ==
  <<Call("new Texture", "create", Texture("m_textureEnvironment"))>>
  \o (IF lightID # 0 THEN createGeometryCalls(k) ELSE << >>)

\* initPipeline, the instance acceleration structure.
AccelCalls ==
  <<cudaMalloc(Buffer("d_instances")),
    cudaMalloc(Buffer("m_d_ias")),
    cudaMalloc(Buffer("d_tmp")),
    Call("optixAccelBuild", "use", Buffer("m_d_ias")),
    Call("cudaStreamSynchronize", "use", Stream),
    cudaFree(Buffer("d_tmp")),
    cudaFree(Buffer("d_instances"))>>

\* initPipeline, the modules and the program groups.
ProgramCalls ==
  [i \in 1 .. NUM_MODULE_IDENTIFIERS |->
     Call("optixModuleCreateFromPTX", "create", Module(i - 1))]
  \o [i \in 1 .. NUM_PROGRAM_IDENTIFIERS |->
        Call("optixProgramGroupCreate", "create", ProgramGroup(i - 1))]

\* initPipeline, the pipeline and the stack sizes.
PipelineCalls ==
  [i \in 1 .. NUM_PROGRAM_IDENTIFIERS |->
     Call("optixPipelineCreate", "use", ProgramGroup(i - 1))]
  \o <<Call("optixPipelineCreate", "create", Pipeline)>>
  \o [i \in 1 .. NUM_PROGRAM_IDENTIFIERS |->
        Call("optixProgramGroupGetStackSize", "use", ProgramGroup(i - 1))]
  \o <<Call("optixPipelineSetStackSize", "use", Pipeline)>>

\* initPipeline, the shader binding table and the launch parameters.
SbtCalls(interop) ==
  <<optixSbtRecordPackHeader(PROGRAM_ID_RAYGENERATION),
    cudaMalloc(Buffer("m_d_sbtRecordRaygeneration")),
    optixSbtRecordPackHeader(PROGRAM_ID_EXCEPTION),
    cudaMalloc(Buffer("m_d_sbtRecordException")),
    optixSbtRecordPackHeader(PROGRAM_ID_MISS_RADIANCE),
    optixSbtRecordPackHeader(PROGRAM_ID_MISS_SHADOW),
    cudaMalloc(Buffer("m_d_sbtRecordMiss")),
    optixSbtRecordPackHeader(PROGRAM_ID_HIT_RADIANCE),
    optixSbtRecordPackHeader(PROGRAM_ID_HIT_SHADOW),
    optixSbtRecordPackHeader(PROGRAM_ID_HIT_RADIANCE_CUTOUT),
    optixSbtRecordPackHeader(PROGRAM_ID_HIT_SHADOW_CUTOUT),
    cudaMalloc(Buffer("m_d_sbtRecordGeometryInstanceData"))>>
  \o [i \in 1 .. (NUM_PROGRAM_IDENTIFIERS - PROGRAM_ID_LENS_PINHOLE) |->
        optixSbtRecordPackHeader(PROGRAM_ID_LENS_PINHOLE + (i - 1))]
  \o <<cudaMalloc(Buffer("m_d_sbtRecordCallables"))>>
  \o (IF interop THEN << >> ELSE <<cudaMalloc(Buffer("outputBuffer"))>>)
  \o <<cudaMalloc(Buffer("lightDefinitions")),
       cudaMalloc(Buffer("materialParameters")),
       cudaMalloc(Buffer("m_d_systemParameter"))>>

\* initPipeline, its last two loops.
DestroyCalls ==
  [i \in 1 .. NUM_PROGRAM_IDENTIFIERS |->
     Call("optixProgramGroupDestroy", "destroy", ProgramGroup(i - 1))]
  \o [i \in 1 .. NUM_MODULE_IDENTIFIERS |->
        Call("optixModuleDestroy", "destroy", Module(i - 1))]

\* initPipelineCalls with the program groups and modules destroyed right
\* after their creation.
initPipelineCallsDestroyFirst(interop) ==
  AccelCalls \o ProgramCalls \o DestroyCalls \o PipelineCalls \o SbtCalls(interop)

\* initPipeline after createLights.
initPipelineCalls(interop) ==
  AccelCalls \o ProgramCalls \o PipelineCalls \o SbtCalls(interop) \o DestroyCalls

\* reshape(), the non-interop branch: the pixel buffer is freed and
\* allocated again.
ReshapeCalls(interop, needed) ==
  IF needed /\ ~interop
    THEN <<cudaFree(Buffer("outputBuffer")), cudaMalloc(Buffer("outputBuffer"))>>
    ELSE << >>

\* GeometryFrees with the index buffer freed twice and the attribute buffer
\* not at all.
GeometryFreesIndicesTwice(g) ==
  <<cudaFree(GeometryBuffer("indices", g.indices)),
    cudaFree(GeometryBuffer("indices", g.indices)),
    cudaFree(GeometryBuffer("gas", g.gas))>>

\* The three frees of the loop over m_geometries, for the geometry g.
GeometryFrees(g) ==
  <<cudaFree(GeometryBuffer("indices", g.indices)),
    cudaFree(GeometryBuffer("attributes", g.attributes)),
    cudaFree(GeometryBuffer("gas", g.gas))>>

RECURSIVE AllGeometryFrees(_)
AllGeometryFrees(geometries) ==
  IF geometries = << >> THEN << >>
  ELSE GeometryFrees(Head(geometries)) \o AllGeometryFrees(Tail(geometries))

\* DestructorCalls with the device context destroyed before the buffers.
DestructorCallsContextFirst(geometries, interop, isValid) ==
  IF ~isValid THEN << >>
  ELSE <<Call("cudaStreamSynchronize", "use", Stream),
         Call("optixDeviceContextDestroy", "destroy", Context),
         Call("delete", "destroy", Texture("m_textureEnvironment")),
         Call("delete", "destroy", Texture("m_textureAlbedo")),
         Call("delete", "destroy", Texture("m_textureCutout"))>>
       \o (IF interop THEN << >> ELSE <<cudaFree(Buffer("outputBuffer"))>>)
       \o <<cudaFree(Buffer("lightDefinitions")),
            cudaFree(Buffer("materialParameters")),
            cudaFree(Buffer("m_d_systemParameter"))>>
       \o AllGeometryFrees(geometries)
       \o <<cudaFree(Buffer("m_d_ias")),
            cudaFree(Buffer("m_d_sbtRecordRaygeneration")),
            cudaFree(Buffer("m_d_sbtRecordException")),
            cudaFree(Buffer("m_d_sbtRecordMiss")),
            cudaFree(Buffer("m_d_sbtRecordCallables")),
            cudaFree(Buffer("m_d_sbtRecordGeometryInstanceData")),
            Call("optixPipelineDestroy", "destroy", Pipeline),
            Call("cudaStreamDestroy", "destroy", Stream)>>

\* ~Application(), "if (m_isValid)": the calls on the GPU objects.
DestructorCalls(geometries, interop, isValid) ==
  IF ~isValid THEN << >>
  ELSE <<Call("cudaStreamSynchronize", "use", Stream),
         Call("delete", "destroy", Texture("m_textureEnvironment")),
         Call("delete", "destroy", Texture("m_textureAlbedo")),
         Call("delete", "destroy", Texture("m_textureCutout"))>>
       \o (IF interop THEN << >> ELSE <<cudaFree(Buffer("outputBuffer"))>>)
       \o <<cudaFree(Buffer("lightDefinitions")),
            cudaFree(Buffer("materialParameters")),
            cudaFree(Buffer("m_d_systemParameter"))>>
       \o AllGeometryFrees(geometries)
       \o <<cudaFree(Buffer("m_d_ias")),
            cudaFree(Buffer("m_d_sbtRecordRaygeneration")),
            cudaFree(Buffer("m_d_sbtRecordException")),
            cudaFree(Buffer("m_d_sbtRecordMiss")),
            cudaFree(Buffer("m_d_sbtRecordCallables")),
            cudaFree(Buffer("m_d_sbtRecordGeometryInstanceData")),
            Call("optixPipelineDestroy", "destroy", Pipeline),
            Call("optixDeviceContextDestroy", "destroy", Context),
            Call("cudaStreamDestroy", "destroy", Stream)>>

\* The calls of the first n create*() calls of initPipeline.
RECURSIVE SceneObjectCalls(_)
SceneObjectCalls(n) ==
  IF n = 0 THEN << >> ELSE SceneObjectCalls(n - 1) \o createGeometryCalls(n - 1)

\* The calls of a constructor whose initOptiX succeeds.
ConstructorCalls(lightID, interop) ==
  InitOptiXCalls("cudaStreamCreate", TRUE)
  \o InitOptiXCalls("optixDeviceContextCreate", TRUE)
  \o SceneObjectCalls(NumSceneObjects)
  \o createLightsCalls(lightID, NumSceneObjects)
  \o initPipelineCalls(interop)

\* ------------------------------------------------------------------------
\* Float values
\* ------------------------------------------------------------------------
\* A float of the material parameters is zero, a positive decimal
\* m * 10^e whose m does not end in 0, infinity or NaN.  The rounding of the
\* binary mantissa is not modelled.
Zero == [kind |-> "zero"]
Inf == [kind |-> "inf"]
NaN == [kind |-> "nan"]

RECURSIVE Normalize(_, _)
Normalize(m, e) ==
  IF m % 10 = 0 THEN Normalize(m \div 10, e + 1)
  ELSE [kind |-> "finite", m |-> m, e |-> e]

\* The literal m * 10^e.
Dec(m, e) == IF m = 0 THEN Zero ELSE Normalize(m, e)

RECURSIVE Digits(_)
Digits(m) == IF m < 10 THEN 1 ELSE 1 + Digits(m \div 10)

\* m * 10^e is above the largest float, 3.4028235e38; m has at most nine
\* digits.
Overflows(m, e) ==
  /\ e > 29
  /\ LET d == Digits(m)
         order == d + e - 1
     IN \/ order > 38
        \/ /\ order = 38
           /\ IF d <= 8 THEN m * 10^(8 - d) > 34028235
                        ELSE m \div 10^(d - 8) > 34028235

\* m * 10^e is below the smallest denormal float, 1.4e-45.
Underflows(m, e) == e < -45 /\ Digits(m) + e - 1 < -45

\* The float nearest to m * 10^e.
Round(m, e) ==
  IF Overflows(m, e) THEN Inf
  ELSE IF Underflows(m, e) THEN Zero
  ELSE Normalize(m, e)

\* The float product of two non-negative floats.
FloatMul(a, b) ==
  CASE a.kind = "finite" /\ b.kind = "finite" -> Round(a.m * b.m, a.e + b.e)
    [] a.kind = "nan" \/ b.kind = "nan" -> NaN
    [] (a.kind = "inf" /\ b.kind = "zero") \/ (a.kind = "zero" /\ b.kind = "inf") -> NaN
    [] a.kind = "inf" \/ b.kind = "inf" -> Inf
    [] OTHER -> Zero

\* -logf(c) for the color channel values of initMaterials and of the
\* "Absorption" widget, to six decimals; -logf(0.0f) is infinity.
LogTable ==
  (Zero :> Inf) @@ (Dec(1, 0) :> Zero) @@ (Dec(95, -2) :> Dec(51293, -6)) @@
  (Dec(9, -1) :> Dec(105361, -6)) @@ (Dec(8, -1) :> Dec(223144, -6)) @@
  (Dec(75, -2) :> Dec(287682, -6)) @@ (Dec(5, -1) :> Dec(693147, -6)) @@
  (Dec(980392, -6) :> Dec(19803, -6)) @@ (Dec(729412, -6) :> Dec(315517, -6)) @@
  (Dec(470588, -6) :> Dec(753772, -6))

NegLogf(c) == LogTable[c]

\* The sentinel of the device code: a finite positive float, 1.0e27f.
RT_DEFAULT_MAX == Dec(1, 27)

\* AbsorptionChannel without the test of the channel.
AbsorptionChannelUnguarded(c) == NegLogf(c)

\* "(0.0f < c) ? -logf(c) : RT_DEFAULT_MAX".
AbsorptionChannel(c) == IF c # Zero THEN NegLogf(c) ELSE RT_DEFAULT_MAX

\* "make_float3(x, y, z) * src.volumeDistanceScale".
Absorption(color, scale) ==
  [ch \in 1 .. 3 |-> FloatMul(AbsorptionChannel(color[ch]), scale)]

\* initMaterials: the BSDF, the texture flags, the absorption color and the
\* volume distance scale of the six materials.
InitialMaterials ==
  << [indexBSDF |-> INDEX_BSDF_DIFFUSE_REFLECTION,
      useAlbedoTexture |-> TRUE,  useCutoutTexture |-> FALSE,
      absorptionColor |-> <<Dec(1, 0), Dec(1, 0), Dec(1, 0)>>,
      volumeDistanceScale |-> Dec(1, 0)],
     [indexBSDF |-> INDEX_BSDF_SPECULAR_REFLECTION_TRANSMISSION,
      useAlbedoTexture |-> FALSE, useCutoutTexture |-> FALSE,
      absorptionColor |-> <<Dec(75, -2), Dec(75, -2), Dec(95, -2)>>,
      volumeDistanceScale |-> Dec(1, 0)],
     [indexBSDF |-> INDEX_BSDF_SPECULAR_REFLECTION_TRANSMISSION,
      useAlbedoTexture |-> FALSE, useCutoutTexture |-> FALSE,
      absorptionColor |-> <<Dec(5, -1), Dec(75, -2), Dec(5, -1)>>,
      volumeDistanceScale |-> Dec(1, 0)],
     [indexBSDF |-> INDEX_BSDF_DIFFUSE_REFLECTION,
      useAlbedoTexture |-> FALSE, useCutoutTexture |-> TRUE,
      absorptionColor |-> <<Dec(980392, -6), Dec(729412, -6), Dec(470588, -6)>>,
      volumeDistanceScale |-> Dec(1, 0)],
     [indexBSDF |-> INDEX_BSDF_SPECULAR_REFLECTION,
      useAlbedoTexture |-> FALSE, useCutoutTexture |-> FALSE,
      absorptionColor |-> <<Dec(9, -1), Dec(8, -1), Dec(8, -1)>>,
      volumeDistanceScale |-> Dec(1, 0)],
     [indexBSDF |-> INDEX_BSDF_SPECULAR_REFLECTION,
      useAlbedoTexture |-> FALSE, useCutoutTexture |-> FALSE,
      absorptionColor |-> <<Dec(1, 0), Dec(1, 0), Dec(1, 0)>>,
      volumeDistanceScale |-> Dec(1, 0)] >>

\* updateMaterialParameters: GUI layout to device layout.
ConvertMaterial(src) ==
  [indexBSDF |-> src.indexBSDF,
   textureAlbedo |-> IF src.useAlbedoTexture THEN TEXTURE_ALBEDO ELSE 0,
   textureCutout |-> IF src.useCutoutTexture THEN TEXTURE_CUTOUT ELSE 0,
   absorption |-> Absorption(src.absorptionColor, src.volumeDistanceScale)]

updateMaterialParameters(gui) == [i \in 1 .. Len(gui) |-> ConvertMaterial(gui[i])]

\* createLights, the switch on m_missID: the environment light.
EnvironmentLights(missID) ==
  IF missID = 1 \/ missID = 2
    THEN << [type |-> LIGHT_ENVIRONMENT, emission |-> 1] >>
    ELSE << >>

\* LightDefinitions with the parallelogram light pushed before the
\* environment light.
LightDefinitionsAreaFirst(missID, lightID) ==
  IF lightID # 0
    THEN <<[type |-> LIGHT_PARALLELOGRAM, emission |-> 10]>> \o EnvironmentLights(missID)
    ELSE EnvironmentLights(missID)

\* createLights, the light definitions: the environment light first, then
\* the parallelogram light if m_lightID is set.
LightDefinitions(missID, lightID) ==
  IF lightID # 0
    THEN Append(EnvironmentLights(missID), [type |-> LIGHT_PARALLELOGRAM, emission |-> 10])
    ELSE EnvironmentLights(missID)

\* ------------------------------------------------------------------------
\* Shader binding table
\* ------------------------------------------------------------------------
Uninitialized == [header |-> -1, indices |-> 0, attributes |-> 0,
                  materialIndex |-> -1, lightIndex |-> -1]

\* HitHeader with the two cutout headers exchanged.
HitHeaderSwapped(useCutoutTexture, rayType) ==
  IF ~useCutoutTexture
    THEN (IF rayType = RAYTYPE_RADIANCE THEN PROGRAM_ID_HIT_RADIANCE ELSE PROGRAM_ID_HIT_SHADOW)
    ELSE (IF rayType = RAYTYPE_RADIANCE THEN PROGRAM_ID_HIT_SHADOW_CUTOUT ELSE PROGRAM_ID_HIT_RADIANCE_CUTOUT)

\* The pair of cached hit-group headers selected by a material's cutout flag.
HitHeader(useCutoutTexture, rayType) ==
  IF ~useCutoutTexture
    THEN (IF rayType = RAYTYPE_RADIANCE THEN PROGRAM_ID_HIT_RADIANCE ELSE PROGRAM_ID_HIT_SHADOW)
    ELSE (IF rayType = RAYTYPE_RADIANCE THEN PROGRAM_ID_HIT_RADIANCE_CUTOUT ELSE PROGRAM_ID_HIT_SHADOW_CUTOUT)

\* RecordIndex with the ray type stride left out.
RecordIndexNoStride(instance) == instance

\* First record of an instance.
RecordIndex(instance) == instance * NUM_RAYTYPES

\* The header memcpy pair of initPipeline and updateShaderBindingTable:
\* records idx and idx + 1 get the headers selected by material "instance".
WriteHeaders(records, gui, instance) ==
  LET idx == RecordIndex(instance)
      cut == At(gui, instance).useCutoutTexture
  IN [k \in 1 .. Len(records) |->
        IF k = idx + 1 THEN [records[k] EXCEPT !.header = HitHeader(cut, RAYTYPE_RADIANCE)]
        ELSE IF k = idx + 2 THEN [records[k] EXCEPT !.header = HitHeader(cut, RAYTYPE_SHADOW)]
        ELSE records[k]]

\* The payload assignments of the initPipeline loop body for instance i.
WriteData(records, geometries, i) ==
  LET idx == RecordIndex(i)
      data(r) == [r EXCEPT !.indices = At(geometries, i).indices,
                           !.attributes = At(geometries, i).attributes,
                           !.materialIndex = i,
                           !.lightIndex = -1]
  IN [k \in 1 .. Len(records) |->
        IF k = idx + 1 \/ k = idx + 2 THEN data(records[k]) ELSE records[k]]

\* The initPipeline loop "for (int i = 0; i < numInstances; ++i)" from i on.
RECURSIVE FillRecords(_, _, _, _, _)
FillRecords(records, gui, geometries, i, numInstances) ==
  IF i >= numInstances THEN records
  ELSE FillRecords(WriteData(WriteHeaders(records, gui, i), geometries, i),
                   gui, geometries, i + 1, numInstances)

\* The light index written into the records of the last instance.
LightIndex(missID) == IF missID # 0 THEN 1 ELSE 0

\* "if (m_lightID)": the last instance is the parallelogram light.
MarkLight(records, numInstances, missID, lightID) ==
  IF lightID # 0
    THEN LET idx == RecordIndex(numInstances - 1)
         IN [k \in 1 .. Len(records) |->
               IF k = idx + 1 \/ k = idx + 2
                 THEN [records[k] EXCEPT !.lightIndex = LightIndex(missID)]
                 ELSE records[k]]
    ELSE records

\* HitGroupRecords with the array sized for the scene objects only, the
\* instance of the parallelogram light left out.
HitGroupRecordsSceneOnly(instances, gui, geometries, missID, lightID) ==
  LET numInstances == Len(instances)
      resized == [k \in 1 .. NUM_RAYTYPES * NumSceneObjects |-> Uninitialized]
  IN MarkLight(FillRecords(resized, gui, geometries, 0, numInstances),
               numInstances, missID, lightID)

\* m_sbtRecordGeometryInstanceData after the resize and the two passes.
HitGroupRecords(instances, gui, geometries, missID, lightID) ==
  LET numInstances == Len(instances)
      resized == [k \in 1 .. NUM_RAYTYPES * numInstances |-> Uninitialized]
  IN MarkLight(FillRecords(resized, gui, geometries, 0, numInstances),
               numInstances, missID, lightID)

\* CallableRecords with the program group index off by one.
CallableRecordsOffByOne ==
  LET numCallables == NUM_PROGRAM_IDENTIFIERS - PROGRAM_ID_LENS_PINHOLE
  IN [i \in 1 .. numCallables |-> PROGRAM_ID_LENS_PINHOLE + i]

\* The callable records: record i is packed from program group
\* PROGRAM_ID_LENS_PINHOLE + i.
CallableRecords ==
  LET numCallables == NUM_PROGRAM_IDENTIFIERS - PROGRAM_ID_LENS_PINHOLE
  IN [i \in 1 .. numCallables |-> PROGRAM_ID_LENS_PINHOLE + (i - 1)]

\* cudaMemcpy of NUM_RAYTYPES records from host index idx to device index idx.
CopyRecords(device, host, idx) ==
  [k \in 1 .. Len(device) |->
     IF k >= idx + 1 /\ k <= idx + NUM_RAYTYPES THEN host[k] ELSE device[k]]

\* SbtStream with the synchronization left out.
SbtStreamNoSync(st, instances, instance) ==
  IF BelowSize(instance, Len(instances))
    THEN Access(st, "write", "sbtRecords")
    ELSE st

\* updateShaderBindingTable(instance): the synchronization and the copy of
\* the records to the device.
SbtStream(st, instances, instance) ==
  IF BelowSize(instance, Len(instances))
    THEN Access(cudaStreamSynchronize(st), "write", "sbtRecords")
    ELSE st

\* updateShaderBindingTable(instance): the new host and device arrays.
updateShaderBindingTable(host, device, gui, instances, instance) ==
  IF BelowSize(instance, Len(instances))
    THEN LET h == WriteHeaders(host, gui, instance)
         IN [host |-> h, device |-> CopyRecords(device, h, RecordIndex(instance))]
    ELSE [host |-> host, device |-> device]

\* ------------------------------------------------------------------------
\* Accumulation loop
\* ------------------------------------------------------------------------
\* The values the inputs are drawn from.
CameraTypes == 0 .. 2
MinPathLengths == {0, 2}
MaxPathLengths == {5, 10}
SceneEpsilonFactors == {0, 500}
EnvRotations == {0, 1}
Emissions == {0, 10}
OutputPointers == {1, 2}
Dimensions == {0, 2}
FrameBudgets == 0 .. MaxIterations
TimeSteps == {1, 2}

\* m_systemParameter as initialized by the constructor.
ConstructorSystemParameter ==
  [topObject |-> 0, outputBuffer |-> 0, pathLengths |-> [x |-> 2, y |-> 5],
   envRotation |-> 0, iterationIndex |-> 0, sceneEpsilon |-> 500,
   numLights |-> 0, cameraType |-> 0, camera |-> 0]

NoBuffer == [pixels |-> 0, n |-> 0, mixed |-> FALSE, snap |-> << >>]

NoRender == [called |-> FALSE]

NoUpdate == [called |-> FALSE]

NoLog == [logged |-> FALSE]

\* m_sbt and the raygen, exception, miss and callable records after
\* initPipeline.
InitialSbt(numInstances) ==
  [raygenRecord |-> PROGRAM_ID_RAYGENERATION,
   exceptionRecord |-> PROGRAM_ID_EXCEPTION,
   missRecords |-> <<PROGRAM_ID_MISS_RADIANCE, PROGRAM_ID_MISS_SHADOW>>,
   missRecordCount |-> NUM_RAYTYPES,
   hitgroupRecordCount |-> NUM_RAYTYPES * numInstances,
   callables |-> CallableRecords,
   callablesRecordCount |-> Len(CallableRecords)]

NoSbt ==
  [raygenRecord |-> -1, exceptionRecord |-> -1, missRecords |-> << >>,
   missRecordCount |-> 0, hitgroupRecordCount |-> 0,
   callables |-> << >>, callablesRecordCount |-> 0]

\* m_systemParameter after initPipeline ('Setup "sysParameter" data').
InitialSystemParameter(numLights, sceneEpsilonFactor, cameraFrame) ==
  [ConstructorSystemParameter EXCEPT
     !.topObject = 1,
     !.outputBuffer = 1,
     !.pathLengths = [x |-> 2, y |-> 10],
     !.sceneEpsilon = sceneEpsilonFactor,
     !.numLights = numLights,
     !.iterationIndex = 0,
     !.cameraType = 0,
     !.camera = cameraFrame]

\* RestartAccumulation with the reset of m_iterationIndex left out.
RestartAccumulationKeepsIndex(sys) ==
  [m_iterationIndex |-> m_iterationIndex,
   m_presentNext |-> TRUE,
   m_presentAtSecond |-> TicksPerSecond,
   m_d_systemParameter |-> sys,
   m_timer |-> 0,
   presentCause |-> "restart",
   launches |-> << >>,
   lastLog |-> NoLog]

\* RestartAccumulation with the upload of the parameter struct left out.
RestartAccumulationNoUpload(sys) ==
  [m_iterationIndex |-> 0,
   m_presentNext |-> TRUE,
   m_presentAtSecond |-> TicksPerSecond,
   m_d_systemParameter |-> m_d_systemParameter,
   m_timer |-> 0,
   presentCause |-> "restart",
   launches |-> << >>,
   lastLog |-> NoLog]

\* restartAccumulation(): the values it assigns; sys is the host
\* m_systemParameter at the time of the call.
RestartAccumulation(sys) ==
  [m_iterationIndex |-> 0,
   m_presentNext |-> TRUE,
   m_presentAtSecond |-> TicksPerSecond,
   m_d_systemParameter |-> sys,
   m_timer |-> 0,
   presentCause |-> "restart",
   launches |-> << >>,
   lastLog |-> NoLog]

\* The members restartAccumulation() writes, as they are now.
Current ==
  [m_iterationIndex |-> m_iterationIndex,
   m_presentNext |-> m_presentNext,
   m_presentAtSecond |-> m_presentAtSecond,
   m_d_systemParameter |-> m_d_systemParameter,
   m_timer |-> m_timer,
   presentCause |-> presentCause,
   launches |-> launches,
   lastLog |-> lastLog]

\* Assign the members restartAccumulation() writes from the record r.
Assign(r) ==
  /\ m_iterationIndex' = r.m_iterationIndex
  /\ m_presentNext' = r.m_presentNext
  /\ m_presentAtSecond' = r.m_presentAtSecond
  /\ m_d_systemParameter' = r.m_d_systemParameter
  /\ m_timer' = r.m_timer
  /\ presentCause' = r.presentCause
  /\ launches' = r.launches
  /\ lastLog' = r.lastLog

\* ContinueAccumulation with the frame budget included in the range.
ContinueAccumulationInclusive(frames, iterationIndex) ==
  frames = 0 \/ iterationIndex <= frames

\* render(): "if (0 == m_frames || m_iterationIndex < m_frames)".
ContinueAccumulation(frames, iterationIndex) ==
  frames = 0 \/ iterationIndex < frames

\* PresentNow with the test of m_presentNext left out.
PresentNowAlways(presentNext) == TRUE

\* LaunchIndex with the increment applied before the value is taken.
LaunchIndexPreIncrement(iterationIndex) == iterationIndex + 1

\* render(): "m_systemParameter.iterationIndex = m_iterationIndex++", the
\* value stored for the launch.
LaunchIndex(iterationIndex) == iterationIndex

\* render(): "if (m_presentNext)".
PresentNow(presentNext) == presentNext

\* What a launch renders with: the device parameter struct without the
\* iteration index and the output pointer, the device material and light
\* arrays, the device hit-group records and the launch dimensions.
LaunchInputs(dsys, dmat, dlights, dsbt, w, h) ==
  [sys |-> [dsys EXCEPT !.iterationIndex = 0, !.outputBuffer = 0],
   mat |-> dmat, lights |-> dlights, sbt |-> dsbt, dims |-> <<w, h>>]

\* optixLaunch: the ray generation program overwrites the output buffer at
\* iteration index 0 and accumulates into it otherwise.
Launch(buf, dsys, inputs) ==
  IF dsys.iterationIndex = 0
    THEN [buf EXCEPT !.n = 1, !.mixed = FALSE, !.snap = inputs]
    ELSE [buf EXCEPT !.n = buf.n + 1,
                     !.mixed = buf.mixed \/ buf.n = 0 \/ buf.snap # inputs]

\* PresentSchedule with the threshold left as it is by the log.
PresentScheduleKeepsThreshold(presentAtSecond, presentNext, cause, seconds) ==
  IF seconds < HalfSecond
    THEN [m_presentAtSecond |-> TicksPerSecond, m_presentNext |-> TRUE,
          presentCause |-> "early", logged |-> FALSE]
  ELSE IF presentAtSecond < seconds
    THEN [m_presentAtSecond |-> presentAtSecond, m_presentNext |-> TRUE,
          presentCause |-> "second", logged |-> TRUE]
  ELSE [m_presentAtSecond |-> presentAtSecond, m_presentNext |-> presentNext,
        presentCause |-> cause, logged |-> FALSE]

\* render(), the end: the present schedule for the elapsed time "seconds".
PresentSchedule(presentAtSecond, presentNext, cause, seconds) ==
  IF seconds < HalfSecond
    THEN [m_presentAtSecond |-> TicksPerSecond, m_presentNext |-> TRUE,
          presentCause |-> "early", logged |-> FALSE]
  ELSE IF presentAtSecond < seconds
    THEN [m_presentAtSecond |-> Ceil(seconds), m_presentNext |-> TRUE,
          presentCause |-> "second", logged |-> TRUE]
  ELSE [m_presentAtSecond |-> presentAtSecond, m_presentNext |-> presentNext,
        presentCause |-> cause, logged |-> FALSE]

\* ------------------------------------------------------------------------
\* initOptiX() and the destructor
\* ------------------------------------------------------------------------
\* The steps of initOptiX before initRenderer, in order.
BootSteps == <<"cudaFree", "cuCtxGetCurrent", "cudaStreamCreate",
               "initOptiXFunctionTable", "optixDeviceContextCreate">>

AllStepsOk == [k \in 1 .. Len(BootSteps) |-> [step |-> BootSteps[k], ok |-> TRUE]]

\* Where initOptiX continues after the step at position k: the next step,
\* or initRenderer after the last one.
StepAfter(k) == IF k < Len(BootSteps) THEN BootSteps[k + 1] ELSE "instances"

\* NextBootStep with the result of the step not tested.
NextBootStepUnchecked(k, ok) == StepAfter(k)

\* "if (result != success) return false;" after the step at position k.
NextBootStep(k, ok) == IF ok THEN StepAfter(k) ELSE "invalid"

\* The GPU resources the destructor releases.
GpuResources ==
  {"outputBuffer", "lightDefinitions", "materialParameters", "m_d_systemParameter",
   "geometries", "m_d_ias", "m_d_sbtRecordRaygeneration", "m_d_sbtRecordException",
   "m_d_sbtRecordMiss", "m_d_sbtRecordCallables", "m_d_sbtRecordGeometryInstanceData",
   "m_pipeline", "m_context", "m_cudaStream"}

\* ~Application(): "if (m_isValid) { ... }".
Released(isValid) == IF isValid THEN GpuResources ELSE {}

\* ------------------------------------------------------------------------
\* Initial states
\* ------------------------------------------------------------------------

\* The members the constructor initializes before initOptiX.
ConstructorInit ==
  /\ m_iterationIndex = 0
  /\ m_frames = 0
  /\ m_present = FALSE
  /\ m_presentNext = TRUE
  /\ m_presentAtSecond = TicksPerSecond
  /\ m_timer = 0
  /\ m_sceneEpsilonFactor = 500
  /\ m_guiMaterialParameters = InitialMaterials
  /\ presentCause = "constructor"
  /\ lastRender = NoRender
  /\ lastUpdate = NoUpdate
  /\ guiEdits = 0
  /\ m_cudaStream = StreamIdle
  /\ launches = << >>
  /\ restartCalls = 0
  /\ lastLog = NoLog

\* The scene specification starts where the constructor is about to call
\* initOptiX: it has initialized the members.
InitScene ==
  /\ pc = BootSteps[1]
  /\ m_isValid = FALSE
  /\ initSteps = << >>
  /\ released = {}
  /\ m_missID \in 0 .. MaxMissID
  /\ m_lightID \in 0 .. MaxLightID
  /\ m_interop \in BOOLEAN
  /\ m_width = 1
  /\ m_height = 1
  /\ m_instances = << >>
  /\ m_geometries = << >>
  /\ m_lightDefinitions = << >>
  /\ m_sbtRecordGeometryInstanceData = << >>
  /\ m_d_sbtRecordGeometryInstanceData = << >>
  /\ m_sbt = NoSbt
  /\ d_lightDefinitions = << >>
  /\ d_materialParameters = << >>
  /\ m_systemParameter = ConstructorSystemParameter
  /\ m_d_systemParameter = ConstructorSystemParameter
  /\ m_pinholeCamera = [frame |-> 0, changed |-> TRUE]
  /\ outputBuffer = NoBuffer
  /\ m_cudaGraphicsResource = GraphicsIdle
  /\ gpu = NoDevice
  /\ ConstructorInit

\* The scenes (m_missID, m_lightID) the accumulation loop is explored with.
LoopScenes == { <<1, 1>> }

\* The state after construction: the constructor has run initOptiX,
\* initRenderer, initMaterials and initPipeline.
Init ==
  /\ pc = "run"
  /\ m_isValid = TRUE
  /\ initSteps = AllStepsOk
  /\ released = {}
  /\ \E scene \in LoopScenes : m_missID = scene[1] /\ m_lightID = scene[2]
  /\ m_interop \in BOOLEAN
  /\ m_width = 1
  /\ m_height = 1
  /\ LET s5 == SceneObjects(NumSceneObjects)
         s == IF m_lightID # 0 THEN AddObject(s5) ELSE s5
     IN /\ m_instances = s.instances
        /\ m_geometries = s.geometries
  /\ m_lightDefinitions = LightDefinitions(m_missID, m_lightID)
  /\ m_sbtRecordGeometryInstanceData =
       HitGroupRecords(m_instances, InitialMaterials, m_geometries, m_missID, m_lightID)
  /\ m_d_sbtRecordGeometryInstanceData = m_sbtRecordGeometryInstanceData
  /\ m_sbt = InitialSbt(Len(m_instances))
  /\ d_lightDefinitions = m_lightDefinitions
  /\ d_materialParameters = updateMaterialParameters(InitialMaterials)
  /\ m_systemParameter = InitialSystemParameter(Len(m_lightDefinitions), 500, 0)
  /\ m_d_systemParameter = m_systemParameter
  /\ m_pinholeCamera = [frame |-> 0, changed |-> FALSE]
  /\ outputBuffer = [NoBuffer EXCEPT !.pixels = m_width * m_height]
  /\ m_cudaGraphicsResource = BeginGraphics(InitGraphics(GraphicsIdle, m_interop))
  /\ gpu = BeginDevice(Run(NoDevice, ConstructorCalls(m_lightID, m_interop)))
  /\ ConstructorInit

loopVars == <<m_systemParameter, m_d_systemParameter, m_iterationIndex, m_frames,
              m_present, m_presentNext, m_presentAtSecond, m_timer,
              m_pinholeCamera, m_sceneEpsilonFactor, m_width, m_height,
              outputBuffer, presentCause, lastRender, lastUpdate, guiEdits,
              launches, restartCalls, lastLog>>

\* ------------------------------------------------------------------------
\* initPipeline
\* ------------------------------------------------------------------------

\* One step of initOptiX before initRenderer; ok is its result.  A failed
\* step makes initOptiX return false: the constructor ends with m_isValid
\* false.
InitOptiXStep ==
  /\ m_cudaGraphicsResource' = BeginGraphics(m_cudaGraphicsResource)
  /\ \E k \in 1 .. Len(BootSteps), ok \in BOOLEAN :
       /\ pc = BootSteps[k]
       /\ initSteps' = Append(initSteps, [step |-> BootSteps[k], ok |-> ok])
       /\ pc' = NextBootStep(k, ok)
       /\ gpu' = Run(BeginDevice(gpu), InitOptiXCalls(BootSteps[k], ok))
  /\ m_cudaStream' = Begin(m_cudaStream)
  /\ UNCHANGED <<optionVars, m_isValid, released, sceneVars, m_guiMaterialParameters,
                 sbtVars, d_lightDefinitions, d_materialParameters, loopVars>>

\* ~Application(): the synchronization and the frees, if m_isValid.
Destructor ==
  /\ pc = "run" \/ pc = "invalid"
  /\ m_cudaGraphicsResource' =
       DestructorGraphics(m_cudaGraphicsResource, m_isValid /\ m_interop)
  /\ pc' = "destroyed"
  /\ released' = Released(m_isValid)
  /\ gpu' = Run(BeginDevice(gpu), DestructorCalls(m_geometries, m_interop, m_isValid))
  /\ m_cudaStream' =
       IF m_isValid
         THEN Access(Access(Access(cudaStreamSynchronize(Begin(m_cudaStream)),
                                   "free", "outputBuffer"),
                            "free", "geometries"),
                     "free", "sbtRecords")
         ELSE Begin(m_cudaStream)
  /\ UNCHANGED <<optionVars, m_isValid, initSteps, sceneVars, m_guiMaterialParameters,
                 sbtVars, d_lightDefinitions, d_materialParameters, loopVars>>

\* createPlane, createBox, createSphere (twice), createTorus: each creates
\* its geometry and initPipeline pushes the instance for it.
CreateSceneObject ==
  /\ m_cudaGraphicsResource' = BeginGraphics(m_cudaGraphicsResource)
  /\ pc = "instances"
  /\ Len(m_instances) < NumSceneObjects
  /\ gpu' = Run(BeginDevice(gpu), createGeometryCalls(Len(m_geometries)))
  /\ LET s == AddObject([geometries |-> m_geometries, instances |-> m_instances])
     IN /\ m_geometries' = s.geometries
        /\ m_instances' = s.instances
  /\ m_cudaStream' = BuildStream(Begin(m_cudaStream))
  /\ pc' = IF Len(m_instances') = NumSceneObjects THEN "lights" ELSE "instances"
  /\ UNCHANGED <<configVars, m_lightDefinitions, m_guiMaterialParameters, sbtVars,
                 d_lightDefinitions, d_materialParameters, loopVars>>

\* createLights(): the light definitions, and the geometry and the instance
\* of the parallelogram light.
CreateLights ==
  /\ m_cudaGraphicsResource' = BeginGraphics(m_cudaGraphicsResource)
  /\ pc = "lights"
  /\ gpu' = Run(BeginDevice(gpu), createLightsCalls(m_lightID, Len(m_geometries)))
  /\ m_lightDefinitions' = LightDefinitions(m_missID, m_lightID)
  /\ IF m_lightID # 0
       THEN LET s == AddObject([geometries |-> m_geometries, instances |-> m_instances])
            IN /\ m_geometries' = s.geometries
               /\ m_instances' = s.instances
       ELSE UNCHANGED <<m_geometries, m_instances>>
  /\ m_cudaStream' = IF m_lightID # 0 THEN BuildStream(Begin(m_cudaStream))
                                      ELSE Begin(m_cudaStream)
  /\ pc' = "sbt"
  /\ UNCHANGED <<configVars, m_guiMaterialParameters, sbtVars,
                 d_lightDefinitions, d_materialParameters, loopVars>>

\* The rest of initPipeline: the top-level build, the SBT, the output
\* buffer, the device arrays and the parameter struct; initRenderer and
\* initOptiX return and the constructor stores true in m_isValid.
InitPipeline ==
  /\ pc = "sbt"
  /\ m_cudaGraphicsResource' = InitGraphics(m_cudaGraphicsResource, m_interop)
  /\ gpu' = Run(BeginDevice(gpu), initPipelineCalls(m_interop))
  /\ m_sbtRecordGeometryInstanceData' =
       HitGroupRecords(m_instances, m_guiMaterialParameters, m_geometries, m_missID, m_lightID)
  /\ m_d_sbtRecordGeometryInstanceData' = m_sbtRecordGeometryInstanceData'
  /\ m_sbt' = InitialSbt(Len(m_instances))
  /\ outputBuffer' = [NoBuffer EXCEPT !.pixels = m_width * m_height]
  /\ d_lightDefinitions' = m_lightDefinitions
  /\ d_materialParameters' = updateMaterialParameters(m_guiMaterialParameters)
  /\ m_systemParameter' =
       InitialSystemParameter(Len(m_lightDefinitions), m_sceneEpsilonFactor,
                              m_pinholeCamera.frame)
  /\ m_pinholeCamera' = [m_pinholeCamera EXCEPT !.changed = FALSE]
  /\ m_d_systemParameter' = m_systemParameter'
  /\ m_cudaStream' =
       Access(MaterialStream(Access(Access(BuildStream(Begin(m_cudaStream)),
                                           "free", "instances"),
                                    "write", "lightDefinitions")),
              "write", "systemParameter")
  /\ pc' = "run"
  /\ m_isValid' = TRUE
  /\ UNCHANGED <<optionVars, initSteps, released, sceneVars, m_guiMaterialParameters,
                 m_iterationIndex, m_frames, m_present, m_presentNext,
                 m_presentAtSecond, m_timer, m_sceneEpsilonFactor, m_width,
                 m_height, presentCause, lastRender, lastUpdate, guiEdits,
                 launches, restartCalls, lastLog>>

\* ------------------------------------------------------------------------
\* render()
\* ------------------------------------------------------------------------

\* What the host holds as the parameters of the image: the source of truth
\* the device mirrors are uploaded from.
HostInputs ==
  LaunchInputs(m_systemParameter, updateMaterialParameters(m_guiMaterialParameters),
               m_lightDefinitions, m_sbtRecordGeometryInstanceData, m_width, m_height)

\* One call of render().  dt is the time that passes during the call and
\* mapped the pointer cudaGraphicsResourceGetMappedPointer returns.  A call
\* that launches is explored while the iteration index is below
\* MaxIterations and every call while the elapsed time is at most limit.
RenderWithin(limit) ==
  /\ pc = "run"
  /\ \E dt \in TimeSteps, mapped \in OutputPointers :
       LET cameraChanged == m_pinholeCamera.changed
           sys1 == IF cameraChanged
                     THEN [m_systemParameter EXCEPT !.camera = m_pinholeCamera.frame]
                     ELSE m_systemParameter
           s1 == IF cameraChanged THEN RestartAccumulation(sys1) ELSE Current
           launch == ContinueAccumulation(m_frames, s1.m_iterationIndex)
           sys2 == IF launch
                     THEN [sys1 EXCEPT !.iterationIndex = LaunchIndex(s1.m_iterationIndex),
                                       !.outputBuffer = IF m_interop THEN mapped ELSE @]
                     ELSE sys1
           dsys2 == IF launch
                      THEN [s1.m_d_systemParameter EXCEPT
                              !.iterationIndex = sys2.iterationIndex,
                              !.outputBuffer = IF m_interop THEN sys2.outputBuffer ELSE @]
                      ELSE s1.m_d_systemParameter
           buf2 == IF launch
                     THEN Launch(outputBuffer, dsys2,
                                 LaunchInputs(dsys2, d_materialParameters, d_lightDefinitions,
                                              m_d_sbtRecordGeometryInstanceData, m_width, m_height))
                     ELSE outputBuffer
           st1 == IF cameraChanged THEN RestartStream(Begin(m_cudaStream))
                                   ELSE Begin(m_cudaStream)
           st2 == IF launch THEN Access(st1, "write", "iterationIndex") ELSE st1
           st3 == IF launch /\ m_interop
                    THEN Access(st2, "write", "outputBufferPointer") ELSE st2
           st4 == IF launch THEN Submit(st3) ELSE st3
           present == PresentNow(s1.m_presentNext)
           st5 == IF present THEN Access(st4, "read", "outputBuffer") ELSE st4
           next3 == IF present THEN m_present ELSE s1.m_presentNext
           cause3 == IF present
                       THEN (IF m_present THEN "checkbox" ELSE "cleared")
                       ELSE s1.presentCause
           seconds == s1.m_timer + dt
           sched == PresentSchedule(s1.m_presentAtSecond, next3, cause3, seconds)
       IN /\ seconds <= limit
          /\ (launch => s1.m_iterationIndex < MaxIterations)
          /\ (~m_interop => mapped = 1)
          /\ m_systemParameter' = sys2
          /\ m_pinholeCamera' = [m_pinholeCamera EXCEPT !.changed = FALSE]
          /\ outputBuffer' = buf2
          /\ Assign([m_iterationIndex |-> IF launch THEN s1.m_iterationIndex + 1
                                                    ELSE s1.m_iterationIndex,
                     m_presentNext |-> sched.m_presentNext,
                     m_presentAtSecond |-> sched.m_presentAtSecond,
                     m_d_systemParameter |-> dsys2,
                     m_timer |-> seconds,
                     presentCause |-> sched.presentCause,
                     launches |-> IF launch
                                    THEN Append(s1.launches, dsys2.iterationIndex)
                                    ELSE s1.launches,
                     lastLog |-> IF sched.logged
                                   THEN [logged |-> TRUE, ceil |-> Ceil(seconds)]
                                   ELSE s1.lastLog])
          /\ m_cudaStream' = st5
          /\ m_cudaGraphicsResource' =
               RenderGraphics(m_cudaGraphicsResource, m_interop, launch, present)
          /\ gpu' = BeginDevice(gpu)
          /\ lastRender' = [called |-> TRUE,
                            cameraChanged |-> cameraChanged,
                            indexAtStart |-> m_iterationIndex,
                            launched |-> launch,
                            presented |-> present,
                            repaint |-> present,
                            causeAtCheck |-> s1.presentCause,
                            logged |-> sched.logged]
  /\ lastUpdate' = NoUpdate
  /\ restartCalls' = 0
  /\ UNCHANGED <<pc, configVars, sceneVars, m_guiMaterialParameters, sbtVars,
                 d_lightDefinitions, d_materialParameters, m_frames, m_present,
                 m_sceneEpsilonFactor, m_width, m_height, guiEdits>>

\* render() within the time explored for the accumulation loop.
Render == RenderWithin(MaxTime)

\* ------------------------------------------------------------------------
\* reshape() and the camera interactions of guiEventHandler()
\* ------------------------------------------------------------------------

\* A user input: at most MaxGuiEdits of them are explored per run.
UserInput ==
  /\ pc = "run"
  /\ guiEdits < MaxGuiEdits
  /\ guiEdits' = guiEdits + 1
  /\ lastRender' = NoRender
  /\ restartCalls' = 0
  /\ UNCHANGED pc

\* reshape(): "(width != 0 && height != 0) && (m_width != width || m_height != height)".
ReshapeNeeded(width, height) ==
  (width # 0 /\ height # 0) /\ (m_width # width \/ m_height # height)

\* reshape(width, height).  newBuffer is the pointer of the new output
\* buffer; setViewport may mark the camera as changed.
Reshape(width, height) ==
  /\ UserInput
  /\ lastUpdate' = NoUpdate
  /\ m_cudaGraphicsResource' =
       ReshapeGraphics(m_cudaGraphicsResource, m_interop /\ ReshapeNeeded(width, height))
  /\ gpu' = Run(BeginDevice(gpu), ReshapeCalls(m_interop, ReshapeNeeded(width, height)))
  /\ IF ReshapeNeeded(width, height)
       THEN \E newBuffer \in OutputPointers, marks \in BOOLEAN :
              /\ m_width' = width
              /\ m_height' = height
              /\ outputBuffer' = [NoBuffer EXCEPT !.pixels = width * height]
              /\ m_systemParameter' = [m_systemParameter EXCEPT !.outputBuffer = newBuffer]
              /\ m_pinholeCamera' = [m_pinholeCamera EXCEPT !.changed = @ \/ marks]
              /\ Assign(RestartAccumulation(m_systemParameter'))
              /\ m_cudaStream' =
                   RestartStream(IF m_interop
                                   THEN Begin(m_cudaStream)
                                   ELSE Access(Begin(m_cudaStream), "free", "outputBuffer"))
       ELSE /\ m_cudaStream' = Begin(m_cudaStream)
            /\ UNCHANGED <<m_width, m_height, outputBuffer, m_systemParameter,
                           m_pinholeCamera, restartVars>>
  /\ UNCHANGED <<configVars, sceneVars, m_guiMaterialParameters, sbtVars,
                 d_lightDefinitions, d_materialParameters, m_frames, m_present,
                 m_sceneEpsilonFactor>>

\* orbit, pan, dolly, zoom: the camera frame changes and the camera is
\* marked as changed until the next getFrustum.
CameraMove ==
  /\ gpu' = BeginDevice(gpu)
  /\ m_cudaGraphicsResource' = BeginGraphics(m_cudaGraphicsResource)
  /\ UserInput
  /\ lastUpdate' = NoUpdate
  /\ m_pinholeCamera' = [frame |-> 1 - m_pinholeCamera.frame, changed |-> TRUE]
  /\ m_cudaStream' = Begin(m_cudaStream)
  /\ UNCHANGED <<configVars, sceneVars, m_guiMaterialParameters, sbtVars,
                 d_lightDefinitions, d_materialParameters, m_systemParameter,
                 restartVars, m_frames, m_present, m_sceneEpsilonFactor,
                 m_width, m_height, outputBuffer>>

\* ------------------------------------------------------------------------
\* guiWindow(): one widget edited per call
\* ------------------------------------------------------------------------

\* The members a "System" widget handler leaves alone.
SystemWidgetUnchanged ==
  UNCHANGED <<configVars, sceneVars, m_guiMaterialParameters, sbtVars,
              d_lightDefinitions, d_materialParameters, m_pinholeCamera,
              m_width, m_height, outputBuffer>>

\* Checkbox "Present".
GuiPresent ==
  /\ gpu' = BeginDevice(gpu)
  /\ m_cudaGraphicsResource' = BeginGraphics(m_cudaGraphicsResource)
  /\ UserInput
  /\ lastUpdate' = NoUpdate
  /\ m_present' = ~m_present
  /\ m_cudaStream' = Begin(m_cudaStream)
  /\ SystemWidgetUnchanged
  /\ UNCHANGED <<m_systemParameter, restartVars, m_frames, m_sceneEpsilonFactor>>

\* Combo "Camera".
GuiCamera(v) ==
  /\ gpu' = BeginDevice(gpu)
  /\ m_cudaGraphicsResource' = BeginGraphics(m_cudaGraphicsResource)
  /\ UserInput
  /\ lastUpdate' = NoUpdate
  /\ m_systemParameter' = [m_systemParameter EXCEPT !.cameraType = v]
  /\ Assign(RestartAccumulation(m_systemParameter'))
  /\ m_cudaStream' = RestartStream(Begin(m_cudaStream))
  /\ SystemWidgetUnchanged
  /\ UNCHANGED <<m_frames, m_present, m_sceneEpsilonFactor>>

\* DragInt "Min Path Length".
GuiMinPathLength(v) ==
  /\ gpu' = BeginDevice(gpu)
  /\ m_cudaGraphicsResource' = BeginGraphics(m_cudaGraphicsResource)
  /\ UserInput
  /\ lastUpdate' = NoUpdate
  /\ m_systemParameter' = [m_systemParameter EXCEPT !.pathLengths.x = v]
  /\ Assign(RestartAccumulation(m_systemParameter'))
  /\ m_cudaStream' = RestartStream(Begin(m_cudaStream))
  /\ SystemWidgetUnchanged
  /\ UNCHANGED <<m_frames, m_present, m_sceneEpsilonFactor>>

\* DragInt "Max Path Length".
GuiMaxPathLength(v) ==
  /\ gpu' = BeginDevice(gpu)
  /\ m_cudaGraphicsResource' = BeginGraphics(m_cudaGraphicsResource)
  /\ UserInput
  /\ lastUpdate' = NoUpdate
  /\ m_systemParameter' = [m_systemParameter EXCEPT !.pathLengths.y = v]
  /\ Assign(RestartAccumulation(m_systemParameter'))
  /\ m_cudaStream' = RestartStream(Begin(m_cudaStream))
  /\ SystemWidgetUnchanged
  /\ UNCHANGED <<m_frames, m_present, m_sceneEpsilonFactor>>

\* DragFloat "Scene Epsilon".
GuiSceneEpsilon(v) ==
  /\ gpu' = BeginDevice(gpu)
  /\ m_cudaGraphicsResource' = BeginGraphics(m_cudaGraphicsResource)
  /\ UserInput
  /\ lastUpdate' = NoUpdate
  /\ m_sceneEpsilonFactor' = v
  /\ m_systemParameter' = [m_systemParameter EXCEPT !.sceneEpsilon = v]
  /\ Assign(RestartAccumulation(m_systemParameter'))
  /\ m_cudaStream' = RestartStream(Begin(m_cudaStream))
  /\ SystemWidgetUnchanged
  /\ UNCHANGED <<m_frames, m_present>>

\* GuiEnvRotation with the call of restartAccumulation() left out.
GuiEnvRotationNoRestart(v) ==
  /\ gpu' = BeginDevice(gpu)
  /\ m_cudaGraphicsResource' = BeginGraphics(m_cudaGraphicsResource)
  /\ UserInput
  /\ lastUpdate' = NoUpdate
  /\ m_systemParameter' = [m_systemParameter EXCEPT !.envRotation = v]
  /\ m_cudaStream' = Begin(m_cudaStream)
  /\ SystemWidgetUnchanged
  /\ UNCHANGED <<restartVars, m_frames, m_present, m_sceneEpsilonFactor>>

\* DragFloat "Env Rotation".
GuiEnvRotation(v) ==
  /\ gpu' = BeginDevice(gpu)
  /\ m_cudaGraphicsResource' = BeginGraphics(m_cudaGraphicsResource)
  /\ UserInput
  /\ lastUpdate' = NoUpdate
  /\ m_systemParameter' = [m_systemParameter EXCEPT !.envRotation = v]
  /\ Assign(RestartAccumulation(m_systemParameter'))
  /\ m_cudaStream' = RestartStream(Begin(m_cudaStream))
  /\ SystemWidgetUnchanged
  /\ UNCHANGED <<m_frames, m_present, m_sceneEpsilonFactor>>

\* FramesRestart with the comparison off by one.
FramesRestartOffByOne(frames, iterationIndex) ==
  frames # 0 /\ frames + 1 < iterationIndex

\* DragInt "Frames": "if (m_frames != 0 && m_frames < m_iterationIndex)".
FramesRestart(frames, iterationIndex) ==
  frames # 0 /\ frames < iterationIndex

GuiFrames(v) ==
  /\ gpu' = BeginDevice(gpu)
  /\ m_cudaGraphicsResource' = BeginGraphics(m_cudaGraphicsResource)
  /\ UserInput
  /\ lastUpdate' = NoUpdate
  /\ m_frames' = v
  /\ IF FramesRestart(v, m_iterationIndex)
       THEN /\ Assign(RestartAccumulation(m_systemParameter))
            /\ m_cudaStream' = RestartStream(Begin(m_cudaStream))
       ELSE /\ m_cudaStream' = Begin(m_cudaStream)
            /\ UNCHANGED restartVars
  /\ SystemWidgetUnchanged
  /\ UNCHANGED <<m_systemParameter, m_present, m_sceneEpsilonFactor>>

\* The members a "Materials" widget handler leaves alone.
MaterialWidgetUnchanged ==
  UNCHANGED <<configVars, sceneVars, m_sbt, d_lightDefinitions, m_systemParameter,
              m_frames, m_present, m_sceneEpsilonFactor, m_pinholeCamera,
              m_width, m_height, outputBuffer>>

\* EditableMaterials with the last material included.
EditableMaterialsAll == 0 .. (Len(m_guiMaterialParameters) - 1)

\* The materials the GUI shows: all but the last one.
EditableMaterials == 0 .. (Len(m_guiMaterialParameters) - 2)

\* The materials whose widgets the accumulation loop is explored with: one
\* that starts without and one that starts with the cutout texture.
LoopMaterials == {i \in EditableMaterials : i \in {0, 3}}

\* Checkbox "Use Albedo Texture" of material i: changed = true.
GuiAlbedoTexture(i) ==
  /\ gpu' = BeginDevice(gpu)
  /\ m_cudaGraphicsResource' = BeginGraphics(m_cudaGraphicsResource)
  /\ UserInput
  /\ lastUpdate' = NoUpdate
  /\ m_guiMaterialParameters' =
       [m_guiMaterialParameters EXCEPT ![i + 1].useAlbedoTexture = ~@]
  /\ d_materialParameters' = updateMaterialParameters(m_guiMaterialParameters')
  /\ Assign(RestartAccumulation(m_systemParameter))
  /\ m_cudaStream' = RestartStream(MaterialStream(Begin(m_cudaStream)))
  /\ MaterialWidgetUnchanged
  /\ UNCHANGED <<m_sbtRecordGeometryInstanceData, m_d_sbtRecordGeometryInstanceData>>

\* The rest of a "Materials" handler that changes neither the SBT records
\* nor the texture flags: updateMaterialParameters and restartAccumulation.
MaterialChanged ==
  /\ gpu' = BeginDevice(gpu)
  /\ m_cudaGraphicsResource' = BeginGraphics(m_cudaGraphicsResource)
  /\ UserInput
  /\ lastUpdate' = NoUpdate
  /\ d_materialParameters' = updateMaterialParameters(m_guiMaterialParameters')
  /\ Assign(RestartAccumulation(m_systemParameter))
  /\ m_cudaStream' = RestartStream(MaterialStream(Begin(m_cudaStream)))
  /\ MaterialWidgetUnchanged
  /\ UNCHANGED <<m_sbtRecordGeometryInstanceData, m_d_sbtRecordGeometryInstanceData>>

\* Combo box "BSDF Type" of material i: item b is selected.
GuiBSDF(i, b) ==
  /\ At(m_guiMaterialParameters, i).indexBSDF # b
  /\ m_guiMaterialParameters' = [m_guiMaterialParameters EXCEPT ![i + 1].indexBSDF = b]
  /\ MaterialChanged

\* Color editor "Absorption" of material i, shown for the transmission BSDF:
\* channel ch becomes v.
GuiAbsorption(i, ch, v) ==
  /\ At(m_guiMaterialParameters, i).indexBSDF = INDEX_BSDF_SPECULAR_REFLECTION_TRANSMISSION
  /\ At(m_guiMaterialParameters, i).absorptionColor[ch] # v
  /\ m_guiMaterialParameters' =
       [m_guiMaterialParameters EXCEPT ![i + 1].absorptionColor[ch] = v]
  /\ MaterialChanged

\* Drag field "Volume Scale" of material i, shown for the transmission BSDF:
\* the scale becomes v.
GuiVolumeScale(i, v) ==
  /\ At(m_guiMaterialParameters, i).indexBSDF = INDEX_BSDF_SPECULAR_REFLECTION_TRANSMISSION
  /\ At(m_guiMaterialParameters, i).volumeDistanceScale # v
  /\ m_guiMaterialParameters' =
       [m_guiMaterialParameters EXCEPT ![i + 1].volumeDistanceScale = v]
  /\ MaterialChanged

\* GuiCutoutTexture with the call of updateShaderBindingTable left out.
GuiCutoutTextureNoSbt(i) ==
  /\ gpu' = BeginDevice(gpu)
  /\ m_cudaGraphicsResource' = BeginGraphics(m_cudaGraphicsResource)
  /\ UserInput
  /\ lastUpdate' = NoUpdate
  /\ m_guiMaterialParameters' =
       [m_guiMaterialParameters EXCEPT ![i + 1].useCutoutTexture = ~@]
  /\ d_materialParameters' = updateMaterialParameters(m_guiMaterialParameters')
  /\ Assign(RestartAccumulation(m_systemParameter))
  /\ m_cudaStream' = RestartStream(MaterialStream(Begin(m_cudaStream)))
  /\ MaterialWidgetUnchanged
  /\ UNCHANGED <<m_sbtRecordGeometryInstanceData, m_d_sbtRecordGeometryInstanceData>>

\* Checkbox "Use Cutout Texture" of material i: updateShaderBindingTable(i)
\* and changed = true.
GuiCutoutTexture(i) ==
  /\ gpu' = BeginDevice(gpu)
  /\ m_cudaGraphicsResource' = BeginGraphics(m_cudaGraphicsResource)
  /\ UserInput
  /\ lastUpdate' = [called |-> TRUE, instance |-> i]
  /\ m_guiMaterialParameters' =
       [m_guiMaterialParameters EXCEPT ![i + 1].useCutoutTexture = ~@]
  /\ LET r == updateShaderBindingTable(m_sbtRecordGeometryInstanceData,
                                       m_d_sbtRecordGeometryInstanceData,
                                       m_guiMaterialParameters', m_instances, i)
     IN /\ m_sbtRecordGeometryInstanceData' = r.host
        /\ m_d_sbtRecordGeometryInstanceData' = r.device
  /\ d_materialParameters' = updateMaterialParameters(m_guiMaterialParameters')
  /\ Assign(RestartAccumulation(m_systemParameter))
  /\ m_cudaStream' =
       RestartStream(MaterialStream(SbtStream(Begin(m_cudaStream), m_instances, i)))
  /\ MaterialWidgetUnchanged

\* GuiEmission with the upload of the light array left out.
GuiEmissionNoUpload(i, v) ==
  /\ gpu' = BeginDevice(gpu)
  /\ m_cudaGraphicsResource' = BeginGraphics(m_cudaGraphicsResource)
  /\ UserInput
  /\ lastUpdate' = NoUpdate
  /\ At(m_lightDefinitions, i).type = LIGHT_PARALLELOGRAM
  /\ m_lightDefinitions' = [m_lightDefinitions EXCEPT ![i + 1].emission = v]
  /\ Assign(RestartAccumulation(m_systemParameter))
  /\ m_cudaStream' = RestartStream(Begin(m_cudaStream))
  /\ UNCHANGED <<configVars, m_instances, m_geometries, m_guiMaterialParameters,
                 sbtVars, d_lightDefinitions, d_materialParameters, m_systemParameter,
                 m_frames, m_present, m_sceneEpsilonFactor, m_pinholeCamera, m_width,
                 m_height, outputBuffer>>

\* DragFloat3 "Emission" of light i, shown for parallelogram lights only.
GuiEmission(i, v) ==
  /\ gpu' = BeginDevice(gpu)
  /\ m_cudaGraphicsResource' = BeginGraphics(m_cudaGraphicsResource)
  /\ UserInput
  /\ lastUpdate' = NoUpdate
  /\ At(m_lightDefinitions, i).type = LIGHT_PARALLELOGRAM
  /\ m_lightDefinitions' = [m_lightDefinitions EXCEPT ![i + 1].emission = v]
  /\ d_lightDefinitions' = m_lightDefinitions'
  /\ Assign(RestartAccumulation(m_systemParameter))
  /\ m_cudaStream' = RestartStream(LightStream(Begin(m_cudaStream)))
  /\ UNCHANGED <<configVars, m_instances, m_geometries, m_guiMaterialParameters,
                 sbtVars, d_materialParameters, m_systemParameter, m_frames,
                 m_present, m_sceneEpsilonFactor, m_pinholeCamera, m_width,
                 m_height, outputBuffer>>

\* updateShaderBindingTable(instance) called again for any argument, with no
\* change of a material flag in between.
UpdateShaderBindingTable(instance) ==
  /\ gpu' = BeginDevice(gpu)
  /\ m_cudaGraphicsResource' = BeginGraphics(m_cudaGraphicsResource)
  /\ pc = "run"
  /\ lastUpdate' = [called |-> TRUE, instance |-> instance]
  /\ lastRender' = NoRender
  /\ restartCalls' = 0
  /\ m_cudaStream' = SbtStream(Begin(m_cudaStream), m_instances, instance)
  /\ LET r == updateShaderBindingTable(m_sbtRecordGeometryInstanceData,
                                       m_d_sbtRecordGeometryInstanceData,
                                       m_guiMaterialParameters, m_instances, instance)
     IN /\ m_sbtRecordGeometryInstanceData' = r.host
        /\ m_d_sbtRecordGeometryInstanceData' = r.device
  /\ UNCHANGED <<pc, configVars, sceneVars, m_guiMaterialParameters, m_sbt,
                 d_lightDefinitions, d_materialParameters, m_systemParameter,
                 restartVars, m_frames, m_present, m_sceneEpsilonFactor,
                 m_pinholeCamera, m_width, m_height, outputBuffer, guiEdits>>

\* restartAccumulation() called with no parameter change before it.
RestartAccumulationCall ==
  /\ gpu' = BeginDevice(gpu)
  /\ m_cudaGraphicsResource' = BeginGraphics(m_cudaGraphicsResource)
  /\ pc = "run"
  /\ guiEdits < MaxGuiEdits
  /\ guiEdits' = guiEdits + 1
  /\ restartCalls' = IF restartCalls < 2 THEN restartCalls + 1 ELSE 2
  /\ lastRender' = NoRender
  /\ lastUpdate' = NoUpdate
  /\ Assign(RestartAccumulation(m_systemParameter))
  /\ m_cudaStream' = RestartStream(Begin(m_cudaStream))
  /\ UNCHANGED <<pc, configVars, sceneVars, m_guiMaterialParameters, sbtVars,
                 d_lightDefinitions, d_materialParameters, m_systemParameter,
                 m_frames, m_present, m_sceneEpsilonFactor, m_pinholeCamera,
                 m_width, m_height, outputBuffer>>

GuiWindow ==
  \/ GuiPresent
  \/ \E v \in CameraTypes : GuiCamera(v)
  \/ \E v \in MinPathLengths : GuiMinPathLength(v)
  \/ \E v \in MaxPathLengths : GuiMaxPathLength(v)
  \/ \E v \in SceneEpsilonFactors : GuiSceneEpsilon(v)
  \/ \E v \in EnvRotations : GuiEnvRotation(v)
  \/ \E v \in FrameBudgets : GuiFrames(v)
  \/ \E i \in LoopMaterials : GuiAlbedoTexture(i)
  \/ \E i \in LoopMaterials : GuiCutoutTexture(i)
  \/ \E i \in Indices(m_lightDefinitions), v \in Emissions : GuiEmission(i, v)

\* The accumulation loop of the constructed application.
Next ==
  \/ Render
  \/ \E w \in Dimensions, h \in Dimensions : Reshape(w, h)
  \/ CameraMove
  \/ GuiWindow
  \/ RestartAccumulationCall

Spec == Init /\ [][Next]_vars

\* The materials whose absorption widgets are explored: one that starts
\* with the diffuse and one that starts with the transmission BSDF.
AbsorptionMaterials == {i \in EditableMaterials : i \in {0, 1}}

BSDFs == {INDEX_BSDF_DIFFUSE_REFLECTION, INDEX_BSDF_SPECULAR_REFLECTION,
          INDEX_BSDF_SPECULAR_REFLECTION_TRANSMISSION}

\* Values the "Absorption" editor is explored with, of its range 0 to 1.
ColorValues == {Zero, Dec(5, -1), Dec(1, 0)}

\* Values the "Volume Scale" field is explored with, of its range 0 to 100.
ScaleValues == {Zero, Dec(1, -2), Dec(1, 0), Dec(1, 2)}

\* The edits of the BSDF and of the volume absorption in the "Materials" pane.
NextMaterial ==
  \/ \E i \in AbsorptionMaterials, b \in BSDFs : GuiBSDF(i, b)
  \/ \E i \in AbsorptionMaterials, ch \in 1 .. 3, v \in ColorValues : GuiAbsorption(i, ch, v)
  \/ \E i \in AbsorptionMaterials, v \in ScaleValues : GuiVolumeScale(i, v)

SpecMaterial == Init /\ [][NextMaterial]_vars

\* The window sizes reshape() is explored with: an int that is negative, 0,
\* the initial size and another size.
ReshapeDimensions == {-1, 0, 1, 2}

\* render() and reshape() calls in any order.  Sizes with a negative
\* product, for which the allocations of reshape() fail, are left out.
NextReshape ==
  \/ Render
  \/ \E w \in ReshapeDimensions, h \in ReshapeDimensions : w * h >= 0 /\ Reshape(w, h)

SpecReshape == Init /\ [][NextReshape]_vars

\* The construction of the scene and of the SBT, and the SBT updates.
NextScene ==
  \/ InitOptiXStep
  \/ Destructor
  \/ CreateSceneObject
  \/ CreateLights
  \/ InitPipeline
  \/ \E i \in EditableMaterials : GuiCutoutTexture(i)
  \/ \E i \in -1 .. NumMaterials : UpdateShaderBindingTable(i)

SpecScene == InitScene /\ [][NextScene]_vars

\* The longest time that passes during one render() call.
MaxStep == CHOOSE dt \in TimeSteps : \A other \in TimeSteps : other <= dt

\* The time explored for an accumulation that runs to its frame budget: the
\* launches and the wait for the next present threshold fit after MaxTime.
LiveTime == MaxTime + MaxStep * (MaxIterations + 3)

RenderLive == RenderWithin(LiveTime)

\* The main loop calls render() once per frame; the user changes the frame
\* budget, which restarts the accumulation when lowered below the iteration
\* index, and the Present checkbox.
NextLive ==
  \/ RenderLive
  \/ \E v \in FrameBudgets : GuiFrames(v)
  \/ GuiPresent

\* render() keeps being called.
SpecLive == Init /\ [][NextLive]_vars /\ WF_vars(RenderLive)

\* The life of the geometry buffers: construction, render() calls, teardown.
NextLifetime ==
  \/ InitOptiXStep
  \/ CreateSceneObject
  \/ CreateLights
  \/ InitPipeline
  \/ Render
  \/ Destructor

SpecLifetime == InitScene /\ [][NextLifetime]_vars

\* ------------------------------------------------------------------------
\* Properties of the scene and of the shader binding table (SpecScene)
\* ------------------------------------------------------------------------
Constructed == pc = "run"

Updated == Constructed /\ lastUpdate.called

NumHitRecords == NUM_RAYTYPES * Len(m_instances)

\* The data of a hit-group record that follows the header.
Payload(r) == [indices |-> r.indices, attributes |-> r.attributes,
               materialIndex |-> r.materialIndex, lightIndex |-> r.lightIndex]

\* C5: once initPipeline has run, and after any updateShaderBindingTable
\* calls, the host array, the device array and the hit-group record count of
\* the SBT all have NUM_RAYTYPES * (number of instances) entries, and the
\* callable array and its record count have
\* NUM_PROGRAM_IDENTIFIERS - PROGRAM_ID_LENS_PINHOLE entries, for every
\* environment type and light option.
C5_RecordCounts ==
  Constructed =>
    /\ Len(m_sbtRecordGeometryInstanceData) = NumHitRecords
    /\ Len(m_d_sbtRecordGeometryInstanceData) = NumHitRecords
    /\ m_sbt.hitgroupRecordCount = NumHitRecords
    /\ Len(m_sbt.callables) = NUM_PROGRAM_IDENTIFIERS - PROGRAM_ID_LENS_PINHOLE
    /\ m_sbt.callablesRecordCount = NUM_PROGRAM_IDENTIFIERS - PROGRAM_ID_LENS_PINHOLE

C5_Witness ==
  /\ Updated
  /\ m_lightID # 0
  /\ Len(m_instances) = NumSceneObjects + 1
  /\ Len(m_d_sbtRecordGeometryInstanceData) = NUM_RAYTYPES * (NumSceneObjects + 1)

\* C6: the instance at position i of the instance list has instanceId i and
\* sbtOffset i * NUM_RAYTYPES, whether or not the light instance is present.
C6_InstanceIds ==
  \A i \in Indices(m_instances) :
    /\ At(m_instances, i).instanceId = i
    /\ At(m_instances, i).sbtOffset = i * NUM_RAYTYPES

C6_Witness ==
  /\ Constructed
  /\ m_lightID # 0
  /\ At(m_instances, NumSceneObjects).sbtOffset = NumSceneObjects * NUM_RAYTYPES

\* C7: a call updateShaderBindingTable(i) with 0 <= i < number of instances
\* leaves every host and device hit-group record outside
\* i * NUM_RAYTYPES .. i * NUM_RAYTYPES + NUM_RAYTYPES - 1 as it was, and
\* leaves the raygen, exception, miss and callable records as they were.
C7_UpdateIsLocal ==
  [][(Constructed /\ lastUpdate'.called
        /\ lastUpdate'.instance >= 0 /\ lastUpdate'.instance < Len(m_instances))
     => LET first == lastUpdate'.instance * NUM_RAYTYPES
            Outside(k) == k < first \/ k > first + NUM_RAYTYPES - 1
        IN /\ Len(m_sbtRecordGeometryInstanceData') = Len(m_sbtRecordGeometryInstanceData)
           /\ Len(m_d_sbtRecordGeometryInstanceData') = Len(m_d_sbtRecordGeometryInstanceData)
           /\ \A k \in Indices(m_sbtRecordGeometryInstanceData) :
                Outside(k) =>
                  /\ At(m_sbtRecordGeometryInstanceData', k) = At(m_sbtRecordGeometryInstanceData, k)
                  /\ At(m_d_sbtRecordGeometryInstanceData', k) = At(m_d_sbtRecordGeometryInstanceData, k)
           /\ m_sbt' = m_sbt]_vars

C7_Witness ==
  /\ Updated
  /\ lastUpdate.instance = 1
  /\ At(m_guiMaterialParameters, 1).useCutoutTexture
  /\ At(m_d_sbtRecordGeometryInstanceData, 2).header = PROGRAM_ID_HIT_RADIANCE_CUTOUT
  /\ At(m_d_sbtRecordGeometryInstanceData, 1).header = PROGRAM_ID_HIT_SHADOW

\* The headers the records i * NUM_RAYTYPES and i * NUM_RAYTYPES + 1 carry
\* for a material with cutout flag "cut".
HeadersOf(cut) ==
  IF cut THEN <<PROGRAM_ID_HIT_RADIANCE_CUTOUT, PROGRAM_ID_HIT_SHADOW_CUTOUT>>
         ELSE <<PROGRAM_ID_HIT_RADIANCE, PROGRAM_ID_HIT_SHADOW>>

HeadersMatch(records) ==
  \A i \in Indices(m_instances) :
    <<At(records, i * NUM_RAYTYPES).header, At(records, i * NUM_RAYTYPES + 1).header>>
      = HeadersOf(At(m_guiMaterialParameters, i).useCutoutTexture)

\* C8: after the initial population and after every update, the two host and
\* device records of instance i carry the radiance and shadow headers when
\* material i has the cutout flag off and the radiance-cutout and
\* shadow-cutout headers when it is on; an update leaves the data after the
\* header of every record as it was.
C8_HeadersFollowCutout ==
  /\ [](Constructed => /\ HeadersMatch(m_sbtRecordGeometryInstanceData)
                       /\ HeadersMatch(m_d_sbtRecordGeometryInstanceData))
  /\ [][(Constructed /\ lastUpdate'.called)
        => \A k \in Indices(m_sbtRecordGeometryInstanceData) :
             /\ Payload(At(m_sbtRecordGeometryInstanceData', k))
                  = Payload(At(m_sbtRecordGeometryInstanceData, k))
             /\ Payload(At(m_d_sbtRecordGeometryInstanceData', k))
                  = Payload(At(m_d_sbtRecordGeometryInstanceData, k))]_vars

C8_Witness ==
  /\ Updated
  /\ lastUpdate.instance = 3
  /\ ~At(m_guiMaterialParameters, 3).useCutoutTexture
  /\ At(m_sbtRecordGeometryInstanceData, 6).header = PROGRAM_ID_HIT_RADIANCE
  /\ At(m_d_sbtRecordGeometryInstanceData, 7).header = PROGRAM_ID_HIT_SHADOW
  /\ At(m_d_sbtRecordGeometryInstanceData, 7).materialIndex = 3

LightsCreated == pc = "sbt" \/ pc = "run"

\* m_missID selects the constant (1) or the spherical (2) environment.
EnvironmentSelected == m_missID = 1 \/ m_missID = 2

\* C9: the light array holds the environment light at index 0 exactly when a
\* constant or spherical environment is selected, followed by the
\* parallelogram light exactly when the light option is set, and numLights
\* is its length: no environment and no light gives an empty array, the
\* constant environment with the light gives <<environment, parallelogram>>.
C9_LightArray ==
  LET n == Len(m_lightDefinitions)
      e == IF EnvironmentSelected THEN 1 ELSE 0
      a == IF m_lightID # 0 THEN 1 ELSE 0
  IN /\ LightsCreated =>
          /\ n = e + a
          /\ (EnvironmentSelected => At(m_lightDefinitions, 0).type = LIGHT_ENVIRONMENT)
          /\ (m_lightID # 0 => At(m_lightDefinitions, e).type = LIGHT_PARALLELOGRAM)
     /\ Constructed =>
          /\ m_systemParameter.numLights = n
          /\ m_d_systemParameter.numLights = n
          /\ d_lightDefinitions = m_lightDefinitions

C9_Witness ==
  /\ Constructed
  /\ m_missID = 1
  /\ m_lightID # 0
  /\ m_systemParameter.numLights = 2
  /\ At(d_lightDefinitions, 1).type = LIGHT_PARALLELOGRAM

\* C10: for every m_missID and m_lightID, the records of an instance that is
\* not the light carry lightIndex -1, and both records of the light instance
\* carry a lightIndex that is below numLights and names the parallelogram
\* entry of the light array.
C10_LightIndexInRange ==
  Constructed =>
    \A k \in Indices(m_sbtRecordGeometryInstanceData) :
      LET index == At(m_sbtRecordGeometryInstanceData, k).lightIndex
          ofLight == m_lightID # 0 /\ k \div NUM_RAYTYPES = Len(m_instances) - 1
      IN IF ofLight
           THEN /\ index >= 0
                /\ index < m_systemParameter.numLights
                /\ At(m_lightDefinitions, index).type = LIGHT_PARALLELOGRAM
           ELSE index = -1

\* ------------------------------------------------------------------------
\* Properties of the accumulation loop (Spec)
\* ------------------------------------------------------------------------
Rendered == lastRender.called

Presented == Rendered /\ lastRender.presented

\* The parameters the image is to show: the host parameters with the camera
\* frame the camera holds now.
WantedInputs == [HostInputs EXCEPT !.sys.camera = m_pinholeCamera.frame]

\* The next render() call launches with iteration index 0.
RestartPending == m_iterationIndex = 0 \/ m_pinholeCamera.changed

\* C1: after any sequence of GUI edits, camera moves and resizes, a change of
\* an output-affecting parameter (camera frame, camera type, path lengths,
\* scene epsilon, environment rotation, light emission, material parameters,
\* viewport size, frame budget lowered below the iteration index) is followed
\* by a restart before the next launch: while the accumulation holds anything
\* rendered with other parameters a restart is pending, no launch accumulates
\* onto iterations rendered with other parameters, and a present shows an
\* accumulation that was rendered with the current parameters only and holds
\* no more iterations than a non-zero frame budget allows.
C1_NoStalePresent ==
  /\ (outputBuffer.n > 0 /\ outputBuffer.snap # WantedInputs) => RestartPending
  /\ outputBuffer.n > 0 => ~outputBuffer.mixed
  /\ Presented =>
       /\ outputBuffer.n > 0
       /\ outputBuffer.snap = WantedInputs
       /\ (m_frames # 0 => outputBuffer.n <= m_frames)

C1_Witness ==
  /\ Presented
  /\ guiEdits > 0
  /\ outputBuffer.n = 2
  /\ outputBuffer.snap.sys.envRotation = 1
  /\ m_d_systemParameter.iterationIndex = 1

\* C2: a render() call in which the camera reports a changed frame launches,
\* the launch observes iteration index 0 on the device, and the call presents
\* and returns repaint = true, for every frame budget and every iteration
\* count before the call.
C2_CameraChangeRestarts ==
  (Rendered /\ lastRender.cameraChanged) =>
    /\ lastRender.launched
    /\ m_d_systemParameter.iterationIndex = 0
    /\ m_iterationIndex = 1
    /\ lastRender.presented
    /\ lastRender.repaint

C2_Witness ==
  /\ Rendered
  /\ lastRender.cameraChanged
  /\ lastRender.indexAtStart = 2
  /\ m_frames = 2
  /\ m_d_systemParameter.iterationIndex = 0
  /\ lastRender.repaint

\* The iteration index render() compared with the frame budget.
IndexAtLaunchTest ==
  IF lastRender.launched THEN m_iterationIndex - 1 ELSE m_iterationIndex

\* C3: render() launches exactly when the frame budget is 0 or the iteration
\* index is below the budget; with a non-zero budget N the iteration index is
\* at most N whenever render() can start, and no launch observes an
\* iteration index of N or more.
C3_FrameBudget ==
  /\ m_frames # 0 => m_iterationIndex <= m_frames
  /\ Rendered =>
       /\ lastRender.launched <=> (m_frames = 0 \/ IndexAtLaunchTest < m_frames)
       /\ (lastRender.launched /\ m_frames # 0) =>
            m_d_systemParameter.iterationIndex < m_frames

C3_Witness ==
  /\ Rendered
  /\ ~lastRender.launched
  /\ guiEdits > 0
  /\ m_frames = 2
  /\ m_iterationIndex = 2
  /\ outputBuffer.n = 2

Restarted ==
  /\ m_iterationIndex = 0
  /\ m_presentNext
  /\ m_presentAtSecond = TicksPerSecond
  /\ m_d_systemParameter = m_systemParameter

\* C12: restartAccumulation() called twice in a row with no parameter change
\* in between leaves what one call leaves: the host and the device
\* parameter struct with the same contents, the iteration index 0, the
\* present flag set and the present threshold at one second.
C12_RestartTwice ==
  /\ [](restartCalls >= 1 => Restarted)
  /\ [][restartCalls' = 2 =>
          /\ m_systemParameter' = m_systemParameter
          /\ m_d_systemParameter' = m_d_systemParameter
          /\ m_iterationIndex' = m_iterationIndex
          /\ m_presentNext' = m_presentNext
          /\ m_presentAtSecond' = m_presentAtSecond]_vars

C12_Witness ==
  /\ restartCalls = 2
  /\ outputBuffer.n = 2
  /\ m_d_systemParameter.iterationIndex = 1
  /\ Restarted

NumCallables == NUM_PROGRAM_IDENTIFIERS - PROGRAM_ID_LENS_PINHOLE

\* C14: the callable record at index k is packed from the program group
\* PROGRAM_ID_LENS_PINHOLE + k for every k below the callable count, in
\* every state of the accumulation loop: render, restart, GUI edits,
\* updateShaderBindingTable and reshape leave the array as initPipeline
\* wrote it.
C14_CallableRecords ==
  /\ Len(m_sbt.callables) = NumCallables
  /\ \A k \in 0 .. NumCallables - 1 :
       At(m_sbt.callables, k) = PROGRAM_ID_LENS_PINHOLE + k

C14_Witness ==
  /\ Rendered
  /\ lastRender.launched
  /\ guiEdits > 1
  /\ At(m_guiMaterialParameters, 0).useCutoutTexture
  /\ At(m_sbt.callables, NumCallables - 1) = PROGRAM_ID_BSDF_SPECULAR_EVAL

\* The device accesses of the most recent operation.
Accesses == {m_cudaStream.log[k] : k \in 1 .. Len(m_cudaStream.log)}

\* C15: updateShaderBindingTable writes the device hit-group records only
\* after a stream synchronization that follows the most recent launch: no
\* launch is in flight while a device SBT record is written.
C15_SbtWriteSynced ==
  \A e \in Accesses :
    (e.op = "write" /\ e.target = "sbtRecords") => e.synced

C15_Witness ==
  /\ [op |-> "write", target |-> "sbtRecords", synced |-> TRUE] \in Accesses
  /\ guiEdits = 1
  /\ outputBuffer.n = 2
  /\ At(m_d_sbtRecordGeometryInstanceData, 0).header = PROGRAM_ID_HIT_RADIANCE_CUTOUT

\* The device parameter struct, material array and light array.
ParameterTargets ==
  {"systemParameter", "iterationIndex", "outputBufferPointer",
   "materialParameters", "lightDefinitions"}

\* C16: every host write to the device parameter struct, the device
\* material array and the device light array is made after an explicit
\* stream synchronization that follows the most recent launch.
C16_ParameterWritesSynced ==
  \A e \in Accesses :
    (e.op = "write" /\ e.target \in ParameterTargets) => e.synced

\* C17: every free of a device buffer that submitted work may still
\* reference is preceded by an explicit stream synchronization with no
\* submission in between.
C17_FreesSynced ==
  \A e \in Accesses : e.op = "free" => e.synced

\* C18: each readback of the output buffer for display in render() is
\* preceded by an explicit stream synchronization that follows the launch
\* of the same call.
C18_ReadbackSynced ==
  \A e \in Accesses :
    (e.op = "read" /\ e.target = "outputBuffer") => e.synced

\* C19: at every launch the device mirrors equal their host sources: the
\* device parameter struct equals the host parameter struct in every field,
\* the device material array equals the conversion of the GUI material
\* parameters and the device light array equals the host light definitions.
C19_MirrorsAtLaunch ==
  (Rendered /\ lastRender.launched) =>
    /\ m_d_systemParameter = m_systemParameter
    /\ d_materialParameters = updateMaterialParameters(m_guiMaterialParameters)
    /\ d_lightDefinitions = m_lightDefinitions

C19_Witness ==
  /\ Rendered
  /\ lastRender.launched
  /\ m_d_systemParameter.iterationIndex = 1
  /\ At(d_lightDefinitions, 1).emission = 0
  /\ At(m_lightDefinitions, 1).emission = 0

\* C20: between two restarts the launches observe the iteration indices
\* 0, 1, 2, ... in order, with no gap and no repeat: each launch sees the
\* value of the host counter before its increment, and the host counter
\* equals the number of launches since the last restart.
C20_LaunchIndices ==
  /\ Len(launches) = m_iterationIndex
  /\ \A k \in 1 .. Len(launches) : launches[k] = k - 1
  /\ (Rendered /\ lastRender.launched) =>
       m_d_systemParameter.iterationIndex = m_iterationIndex - 1

C20_Witness ==
  /\ guiEdits > 0
  /\ m_systemParameter.envRotation = 1
  /\ launches = <<0, 1>>
  /\ m_iterationIndex = 2

\* ------------------------------------------------------------------------
\* Properties of initOptiX and the destructor (SpecScene)
\* ------------------------------------------------------------------------
\* A step of initOptiX has failed.
StepFailed == \E k \in 1 .. Len(initSteps) : ~initSteps[k].ok

\* initRenderer has left something behind: a geometry, an instance, a
\* light, SBT records or the SBT.
RendererTouched ==
  \/ m_geometries # << >>
  \/ m_instances # << >>
  \/ m_lightDefinitions # << >>
  \/ m_sbtRecordGeometryInstanceData # << >>
  \/ m_sbt # NoSbt

\* C13: isValid() is true only if the five steps of initOptiX before
\* initRenderer all succeeded and initRenderer ran; if a step fails,
\* initOptiX returns at that step, initRenderer never runs (no acceleration
\* structure, pipeline data or SBT is created), isValid() stays false and the
\* destructor releases no GPU resource.
C13_ValidOnlyAfterBootstrap ==
  /\ m_isValid => (initSteps = AllStepsOk /\ m_sbt # NoSbt)
  /\ StepFailed =>
       /\ ~initSteps[Len(initSteps)].ok
       /\ \A k \in 1 .. Len(initSteps) - 1 : initSteps[k].ok
       /\ pc \in {"invalid", "destroyed"}
       /\ ~m_isValid
       /\ ~RendererTouched
       /\ released = {}

C13_Witness ==
  /\ pc = "destroyed"
  /\ Len(initSteps) = 4
  /\ ~initSteps[4].ok
  /\ ~m_isValid
  /\ released = {}

\* ------------------------------------------------------------------------
\* Properties of the derived absorption (SpecMaterial)
\* ------------------------------------------------------------------------
\* Channel ch of the absorption color of material i (counted from 1) is 0.
ZeroChannel(i, ch) == m_guiMaterialParameters[i].absorptionColor[ch] = Zero

ChannelsOfMaterials == (1 .. Len(m_guiMaterialParameters)) \X (1 .. 3)

\* C11 as stated: for every material and every volume distance scale, an
\* absorption color channel of exactly 0 gives a device coefficient equal to
\* RT_DEFAULT_MAX.
C11_ZeroChannelIsSentinel ==
  \A c \in ChannelsOfMaterials :
    ZeroChannel(c[1], c[2]) => d_materialParameters[c[1]].absorption[c[2]] = RT_DEFAULT_MAX

\* C11, amended: an absorption color channel of exactly 0 gives the device
\* coefficient RT_DEFAULT_MAX times the volume distance scale of the
\* material: RT_DEFAULT_MAX itself only for the scale 1, zero for the scale
\* 0, and for every scale of the widget's range neither infinity nor NaN.
C11_ZeroChannelIsScaledSentinel ==
  \A c \in ChannelsOfMaterials :
    LET scale == m_guiMaterialParameters[c[1]].volumeDistanceScale
        coefficient == d_materialParameters[c[1]].absorption[c[2]]
    IN ZeroChannel(c[1], c[2]) =>
         /\ coefficient.kind \in {"zero", "finite"}
         /\ scale = Zero <=> coefficient = Zero
         /\ scale = Dec(1, 0) <=> coefficient = RT_DEFAULT_MAX
         /\ scale.kind = "finite" =>
              coefficient = [kind |-> "finite", m |-> scale.m, e |-> scale.e + RT_DEFAULT_MAX.e]

C11_Witness ==
  /\ guiEdits > 1
  /\ ZeroChannel(2, 1)
  /\ m_guiMaterialParameters[2].volumeDistanceScale = Dec(1, 2)
  /\ d_materialParameters[2].absorption[1] = Dec(1, 29)

\* ------------------------------------------------------------------------
\* Further properties of the shader binding table (SpecScene)
\* ------------------------------------------------------------------------
\* C27: updateShaderBindingTable(i) with i negative or i at least the number
\* of instances does nothing: no host and no device record changes, and no
\* stream synchronization and no copy is issued.
C27_OutOfRangeUpdateIsNoOp ==
  [][(Constructed /\ pc' = "run" /\ lastUpdate'.called
        /\ (lastUpdate'.instance < 0 \/ lastUpdate'.instance >= Len(m_instances)))
     => /\ m_sbtRecordGeometryInstanceData' = m_sbtRecordGeometryInstanceData
        /\ m_d_sbtRecordGeometryInstanceData' = m_d_sbtRecordGeometryInstanceData
        /\ m_sbt' = m_sbt
        /\ m_cudaStream'.log = << >>
        /\ m_cudaStream'.pending = m_cudaStream.pending]_vars

C27_Witness ==
  /\ Updated
  /\ lastUpdate.instance = -1
  /\ m_cudaStream.log = << >>
  /\ m_d_sbtRecordGeometryInstanceData = m_sbtRecordGeometryInstanceData

\* The hit-group records of the parallelogram light: those whose lightIndex
\* is not -1.
LightRecords ==
  {k \in Indices(m_sbtRecordGeometryInstanceData) :
     At(m_sbtRecordGeometryInstanceData, k).lightIndex # -1}

\* The header of the hit program without cutout opacity for record k.
OpaqueHeader(k) ==
  IF k % NUM_RAYTYPES = RAYTYPE_RADIANCE THEN PROGRAM_ID_HIT_RADIANCE
                                         ELSE PROGRAM_ID_HIT_SHADOW

\* C26: after any sequence of GUI material edits the records of the
\* parallelogram light instance carry the headers without cutout opacity,
\* on the host and on the device: an edit never touches the last material
\* and never calls updateShaderBindingTable for the light instance.
C26_LightRecordsStayOpaque ==
  /\ [](Constructed =>
          /\ ~m_guiMaterialParameters[Len(m_guiMaterialParameters)].useCutoutTexture
          /\ \A k \in LightRecords :
               /\ At(m_sbtRecordGeometryInstanceData, k).header = OpaqueHeader(k)
               /\ At(m_d_sbtRecordGeometryInstanceData, k).header = OpaqueHeader(k))
  /\ [][(Constructed /\ m_guiMaterialParameters' # m_guiMaterialParameters)
        => /\ m_guiMaterialParameters'[Len(m_guiMaterialParameters)] =
                m_guiMaterialParameters[Len(m_guiMaterialParameters)]
           /\ lastUpdate'.called =>
                RecordIndex(lastUpdate'.instance) \notin LightRecords]_vars

C26_Witness ==
  /\ Updated
  /\ m_lightID # 0
  /\ lastUpdate.instance = NumSceneObjects - 1
  /\ At(m_guiMaterialParameters, NumSceneObjects - 1).useCutoutTexture
  /\ LightRecords = {RecordIndex(NumSceneObjects), RecordIndex(NumSceneObjects) + 1}
  /\ At(m_d_sbtRecordGeometryInstanceData, RecordIndex(NumSceneObjects)).header
       = PROGRAM_ID_HIT_RADIANCE

\* ------------------------------------------------------------------------
\* Further properties of the accumulation loop (Spec)
\* ------------------------------------------------------------------------
\* The header of the hit program with cutout opacity for record k.
CutoutHeader(k) ==
  IF k % NUM_RAYTYPES = RAYTYPE_RADIANCE THEN PROGRAM_ID_HIT_RADIANCE_CUTOUT
                                         ELSE PROGRAM_ID_HIT_SHADOW_CUTOUT

\* The device records of instance i use the cutout program pair.
UsesCutoutPair(i) ==
  \A k \in RecordIndex(i) .. RecordIndex(i) + NUM_RAYTYPES - 1 :
    At(m_d_sbtRecordGeometryInstanceData, k).header = CutoutHeader(k)

\* The device records of instance i use the program pair without cutout.
UsesOpaquePair(i) ==
  \A k \in RecordIndex(i) .. RecordIndex(i) + NUM_RAYTYPES - 1 :
    At(m_d_sbtRecordGeometryInstanceData, k).header = OpaqueHeader(k)

\* C25: at every launch, for every instance i, the device hit-group headers
\* agree with the device material array: the records of instance i use the
\* cutout program pair exactly when device material i has a cutout texture
\* handle other than 0, and the pair without cutout otherwise.
C25_HeadersAgreeWithMaterials ==
  (Rendered /\ lastRender.launched) =>
    \A i \in Indices(m_instances) :
      IF At(d_materialParameters, i).textureCutout # 0
        THEN UsesCutoutPair(i)
        ELSE UsesOpaquePair(i)

C25_Witness ==
  /\ Rendered
  /\ lastRender.launched
  /\ guiEdits > 0
  /\ At(d_materialParameters, 0).textureCutout = TEXTURE_CUTOUT
  /\ UsesCutoutPair(0)
  /\ At(d_materialParameters, 3).textureCutout = TEXTURE_CUTOUT

\* ------------------------------------------------------------------------
\* Properties of reshape() (SpecReshape)
\* ------------------------------------------------------------------------
\* C29: a reshape(w, h) that changes the size has w and h other than 0,
\* reallocates the output buffer for w * h pixels and restarts the
\* accumulation, and at every launch the width and the height are at least
\* 1 and the output buffer holds exactly width * height pixels.
C29_ReshapeKeepsLaunchSize ==
  /\ []((Rendered /\ lastRender.launched) =>
          /\ m_width >= 1
          /\ m_height >= 1
          /\ outputBuffer.pixels = m_width * m_height)
  /\ [][(m_width' # m_width \/ m_height' # m_height)
        => /\ m_width' # 0
           /\ m_height' # 0
           /\ outputBuffer'.pixels = m_width' * m_height'
           /\ m_iterationIndex' = 0
           /\ m_presentNext'
           /\ m_timer' = 0]_vars

GraphicsLog == m_cudaGraphicsResource.log

HasStep(op) == \E k \in DOMAIN GraphicsLog : GraphicsLog[k].op = op

\* C28: in interop mode, over render() and reshape(): the resource is
\* registered whenever it is mapped; every map is followed by its unmap
\* before the function returns; the launch is submitted only while the
\* resource is mapped and after the pointer of that mapping was uploaded to
\* the device; the display path reads the pixel buffer only while the
\* resource is unmapped; the resource is never unregistered while mapped.
C28_InteropProtocol ==
  /\ ~m_cudaGraphicsResource.mapped
  /\ \A k \in DOMAIN GraphicsLog :
       LET e == GraphicsLog[k]
       IN /\ e.mapped => e.registered
          /\ e.op = "map" =>
               /\ e.registered
               /\ ~e.mapped
               /\ \E j \in DOMAIN GraphicsLog : j > k /\ GraphicsLog[j].op = "unmap"
          /\ e.op = "unmap" => e.mapped
          /\ e.op = "launch" => e.mapped /\ e.uploaded
          /\ e.op = "display" => ~e.mapped
          /\ e.op = "unregister" => e.registered /\ ~e.mapped
          /\ e.op = "register" => ~e.registered

\* An interop render() that launched and presented.
C28_Witness ==
  /\ m_interop
  /\ Rendered
  /\ HasStep("map") /\ HasStep("upload") /\ HasStep("launch") /\ HasStep("unmap")
  /\ HasStep("display")

\* ------------------------------------------------------------------------
\* Properties of the GPU objects (SpecScene)
\* ------------------------------------------------------------------------
\* The positions of the calls of the most recent operation that destroy obj.
DestroysOf(d, obj) ==
  {k \in DOMAIN d.log : d.log[k].effect = "destroy" /\ d.log[k].obj = obj}

\* The only such position.
DestroyOf(d, obj) == CHOOSE k \in DestroysOf(d, obj) : TRUE

\* The positions of the calls that release a texture or a device buffer.
Releases(d) ==
  {k \in DOMAIN d.log : /\ d.log[k].effect = "destroy"
                         /\ d.log[k].obj.kind \in {"texture", "buffer"}}

\* The destructor of a valid application runs.
Teardown == pc # "destroyed" /\ pc' = "destroyed" /\ m_isValid

\* C23: the teardown of a valid application synchronizes the stream first,
\* then releases the textures and every device buffer, then destroys the
\* pipeline, then the device context, and the stream last of the GPU
\* objects; every object alive before the teardown is destroyed exactly once
\* and while alive, and the device context is destroyed only after every
\* texture, device buffer and the pipeline.
C23_TeardownOrder ==
  [][Teardown =>
       LET log == gpu'.log
       IN /\ log # << >>
          /\ log[1].op = "cudaStreamSynchronize" /\ log[1].obj = Stream /\ log[1].live
          /\ \A x \in gpu.alive :
               /\ Cardinality(DestroysOf(gpu', x)) = 1
               /\ log[DestroyOf(gpu', x)].live
          /\ {Pipeline, Context, Stream} \subseteq gpu.alive
          /\ \A k \in Releases(gpu') : 1 < k /\ k < DestroyOf(gpu', Pipeline)
          /\ DestroyOf(gpu', Pipeline) < DestroyOf(gpu', Context)
          /\ DestroyOf(gpu', Context) < DestroyOf(gpu', Stream)
          /\ DestroyOf(gpu', Stream) = Len(log)
          /\ \A x \in gpu.alive :
               x.kind \in {"texture", "buffer", "pipeline"} =>
                 DestroyOf(gpu', x) < DestroyOf(gpu', Context)
          /\ gpu'.alive = {}]_vars

\* A valid application with the light geometry was torn down: its textures,
\* its buffers, the pipeline, the context and the stream were destroyed.
C23_Witness ==
  /\ pc = "destroyed"
  /\ m_isValid
  /\ Len(m_geometries) = NumSceneObjects + 1
  /\ ~m_interop
  /\ Cardinality(Releases(gpu)) = 3 + 10 + 3 * Len(m_geometries)
  /\ DestroysOf(gpu, Context) # {}
  /\ gpu.alive = {}

ProgramGroups == {ProgramGroup(i) : i \in 0 .. (NUM_PROGRAM_IDENTIFIERS - 1)}

Modules == {Module(i) : i \in 0 .. (NUM_MODULE_IDENTIFIERS - 1)}

\* The positions of the calls of the most recent operation made with op.
CallsOf(d, op) == {k \in DOMAIN d.log : d.log[k].op = op}

\* The four hit-group headers initPipeline keeps in members.
CachedHeaders ==
  {PROGRAM_ID_HIT_RADIANCE, PROGRAM_ID_HIT_SHADOW,
   PROGRAM_ID_HIT_RADIANCE_CUTOUT, PROGRAM_ID_HIT_SHADOW_CUTOUT}

\* C21: initPipeline destroys every program group and every module exactly
\* once and while alive, the program groups before the modules, and only
\* after the pipeline creation, every stack-size query and every header
\* packing; no operation uses a destroyed handle: after initPipeline no call
\* is made on a program group or a module, and updateShaderBindingTable
\* writes only the four cached hit-group headers.
C21_ProgramsDestroyedAfterUse ==
  /\ [](\A k \in DOMAIN gpu.log : gpu.log[k].effect # "create" => gpu.log[k].live)
  /\ []((Constructed /\ lastUpdate.called) =>
          /\ \A k \in DOMAIN gpu.log : gpu.log[k].obj \notin ProgramGroups \cup Modules
          /\ \A k \in DOMAIN m_d_sbtRecordGeometryInstanceData :
               m_d_sbtRecordGeometryInstanceData[k].header \in CachedHeaders)
  /\ [][(pc = "sbt" /\ pc' = "run") =>
          LET log == gpu'.log
              uses == CallsOf(gpu', "optixPipelineCreate")
                        \cup CallsOf(gpu', "optixProgramGroupGetStackSize")
                        \cup CallsOf(gpu', "optixSbtRecordPackHeader")
          IN /\ \A x \in ProgramGroups \cup Modules :
                  /\ Cardinality(DestroysOf(gpu', x)) = 1
                  /\ log[DestroyOf(gpu', x)].live
                  /\ \A k \in uses : k < DestroyOf(gpu', x)
             /\ \A p \in ProgramGroups, m \in Modules :
                  DestroyOf(gpu', p) < DestroyOf(gpu', m)
             /\ \A p \in ProgramGroups :
                  /\ \E k \in CallsOf(gpu', "optixPipelineCreate") : log[k].obj = p
                  /\ \E k \in CallsOf(gpu', "optixProgramGroupGetStackSize") : log[k].obj = p
                  /\ \E k \in CallsOf(gpu', "optixSbtRecordPackHeader") : log[k].obj = p
             /\ gpu'.alive \cap (ProgramGroups \cup Modules) = {}
             /\ Pipeline \in gpu'.alive]_vars

\* initPipeline has returned: the last program group and the last module
\* were destroyed, the pipeline is alive.
C21_Witness ==
  /\ Constructed
  /\ ~lastUpdate.called
  /\ DestroysOf(gpu, ProgramGroup(PROGRAM_ID_BSDF_SPECULAR_EVAL)) # {}
  /\ DestroysOf(gpu, Module(NUM_MODULE_IDENTIFIERS - 1)) # {}
  /\ CallsOf(gpu, "optixSbtRecordPackHeader") # {}
  /\ Pipeline \in gpu.alive

\* ------------------------------------------------------------------------
\* Properties of the geometry buffers (SpecLifetime)
\* ------------------------------------------------------------------------
\* The three device buffers of the geometry record g.
BuffersOf(g) ==
  {GeometryBuffer("indices", g.indices),
   GeometryBuffer("attributes", g.attributes),
   GeometryBuffer("gas", g.gas)}

\* The number of createGeometry calls of the most recent operation: each
\* builds one acceleration structure.
GeometryCalls(d) ==
  Cardinality({k \in CallsOf(d, "optixAccelBuild") : d.log[k].obj.name = "gas"})

\* C22: each createGeometry call appends exactly one geometry record, whose
\* index, attribute and acceleration-structure buffers are three new
\* allocations; the buffers of every record stay allocated until the
\* teardown, which frees each exactly once; at every launch the index and
\* attribute pointers in the payload of the records of instance i are the
\* live buffers of geometry i.
C22_GeometryBuffersLive ==
  /\ [](pc # "destroyed" =>
          \A i \in DOMAIN m_geometries : BuffersOf(m_geometries[i]) \subseteq gpu.alive)
  /\ []((Constructed /\ Rendered /\ lastRender.launched) =>
          /\ Len(m_geometries) = Len(m_instances)
          /\ \A i \in Indices(m_instances), r \in 0 .. (NUM_RAYTYPES - 1) :
               LET record == At(m_d_sbtRecordGeometryInstanceData, RecordIndex(i) + r)
                   g == At(m_geometries, i)
               IN /\ record.indices = g.indices
                  /\ record.attributes = g.attributes
                  /\ GeometryBuffer("indices", record.indices) \in gpu.alive
                  /\ GeometryBuffer("attributes", record.attributes) \in gpu.alive)
  /\ [][(pc = "instances" \/ pc = "lights") =>
          LET added == (DOMAIN m_geometries') \ (DOMAIN m_geometries)
          IN /\ Len(m_geometries') = Len(m_geometries) + GeometryCalls(gpu')
             /\ SubSeq(m_geometries', 1, Len(m_geometries)) = m_geometries
             /\ \A i \in added :
                  (/\ Cardinality(BuffersOf(m_geometries'[i])) = 3
                   /\ BuffersOf(m_geometries'[i]) \cap gpu.alive = {}
                   /\ BuffersOf(m_geometries'[i]) \subseteq gpu'.alive)]_vars
  /\ [][(pc # "instances" /\ pc # "lights") => m_geometries' = m_geometries]_vars
  /\ [][Teardown =>
          \A i \in DOMAIN m_geometries : \A x \in BuffersOf(m_geometries[i]) :
            (/\ Cardinality(DestroysOf(gpu', x)) = 1
             /\ gpu'.log[DestroyOf(gpu', x)].live
             /\ x \notin gpu'.alive)]_vars

\* A valid application with six geometries rendered and was torn down.
C22_Witness ==
  /\ pc = "destroyed"
  /\ m_isValid
  /\ Rendered /\ lastRender.launched
  /\ Len(m_geometries) = NumSceneObjects + 1
  /\ \A i \in DOMAIN m_geometries : BuffersOf(m_geometries[i]) \cap gpu.alive = {}

\* ------------------------------------------------------------------------
\* Progress of the accumulation (SpecLive)
\* ------------------------------------------------------------------------
\* The last parameter change has just happened, with a frame budget set and
\* enough of the explored time left.
Settled ==
  /\ guiEdits = MaxGuiEdits
  /\ ~Rendered
  /\ m_frames > 0
  /\ m_timer <= MaxTime

\* Exactly m_frames iterations were launched since the last restart.
Complete == m_iterationIndex = m_frames /\ Len(launches) = m_frames

\* C30: with a frame budget N > 0, once no parameter changes any more and
\* render() keeps being called while time advances, eventually exactly N
\* iterations have been launched since the last restart and a render() call
\* presents with the N launches done, whether the Present checkbox is on or
\* off, and from some point on no further launch is issued.
C30_BudgetReachedAndShown ==
  /\ Settled ~> (Complete /\ Rendered /\ lastRender.presented)
  /\ Settled ~> [](Complete /\ (Rendered => ~lastRender.launched))

\* With the Present checkbox off, a render() call after the last launch of
\* a full budget presents.
C30_Witness ==
  /\ guiEdits = MaxGuiEdits
  /\ ~m_present
  /\ m_frames = MaxIterations
  /\ Complete
  /\ Rendered /\ lastRender.presented /\ ~lastRender.launched

====
